---------------------------- MODULE PollingProofs ----------------------------
(***************************************************************************)
(* Theorems about the polling of the devices behind a gateway: ReadMaster  *)
(* for every configuration, timing and number of devices, and PollSteps    *)
(* for every list of values.                                               *)
(***************************************************************************)
EXTENDS ReadMaster, PollSteps, FiniteSetTheorems, WellFoundedInduction, TLAPS

-----------------------------------------------------------------------------
(* The operators.                                                            *)

LEMMA LeastNat ==
  ASSUME NEW S \in SUBSET Nat, S # {}
  PROVE  \E m \in S : \A n \in S : m <= n
<1>1. IsWellFoundedOn(OpToRel(<, Nat), Nat)
  BY NatLessThanWellFounded
<1>2. PICK m \in S : \A n \in S : ~ (<<n, m>> \in OpToRel(<, Nat))
  BY <1>1, WFMin, Zenon
<1>3. \A n \in S : ~ (n < m)
  BY <1>2 DEF OpToRel
<1> QED
  BY <1>3

\* What when_next_device chooses: a device that no active device is behind of.
Oldest(devs, c) ==
  /\ c \in DOMAIN devs
  /\ c # 1 => devs[c].active
  /\ \A i \in DOMAIN devs : devs[i].active => devs[c].next_read_at <= devs[i].next_read_at

LEMMA ChosenIsOldest ==
  ASSUME NEW devs \in Seq(DeviceUnit), devs # <<>>
  PROVE  Oldest(devs, Chosen(devs))
<1> DEFINE before(i, j) == \/ devs[i].next_read_at < devs[j].next_read_at
                           \/ devs[i].next_read_at = devs[j].next_read_at /\ i <= j
           ahead == {i \in DOMAIN devs :
                       devs[i].active /\ devs[i].next_read_at < devs[1].next_read_at}
<1>1. /\ DOMAIN devs = 1 .. Len(devs) /\ Len(devs) \in Nat \ {0}
      /\ \A i \in DOMAIN devs : devs[i].next_read_at \in Nat
  <2> HIDE DEF before, ahead
  <2>1. /\ DOMAIN devs = 1 .. Len(devs) /\ Len(devs) \in Nat \ {0}
        /\ \A i \in DOMAIN devs : devs[i] \in DeviceUnit
    OBVIOUS
  <2> QED
    BY <2>1 DEF DeviceUnit
<1>2. CASE ahead = {}
  BY <1>1, <1>2 DEF Chosen, Oldest
<1>3. CASE ahead # {}
  <2> DEFINE times == {devs[i].next_read_at : i \in ahead}
  <2>1. PICK a \in times : \A b \in times : a <= b
    <3>1. times \in SUBSET Nat /\ times # {}
      BY <1>1, <1>3
    <3> HIDE DEF times
    <3> QED
      BY <3>1, LeastNat
  <2> DEFINE first == {i \in ahead : devs[i].next_read_at = a}
  <2>2. PICK m \in first : \A n \in first : m <= n
    <3>1. first \in SUBSET Nat /\ first # {}
      BY <1>1, <2>1
    <3> HIDE DEF first
    <3> QED
      BY <3>1, LeastNat
  <2>3. \E i \in ahead : \A j \in ahead : before(i, j)
    <3>1. SUFFICES ASSUME NEW j \in ahead
                   PROVE  before(m, j)
      BY <2>2
    <3>2. /\ j \in Nat /\ m \in Nat /\ a \in Nat
          /\ devs[j].next_read_at \in Nat /\ devs[m].next_read_at = a
      BY <1>1
    <3>3. a <= devs[j].next_read_at
      BY <2>1
    <3>4. devs[j].next_read_at = a => m <= j
      BY <2>2
    <3> QED
      BY <3>2, <3>3, <3>4
  <2>4. Chosen(devs) = CHOOSE i \in ahead : \A j \in ahead : before(i, j)
    BY <1>3 DEF Chosen
  <2>5. Chosen(devs) \in ahead /\ \A j \in ahead : before(Chosen(devs), j)
    <3> DEFINE P(i) == \A j \in ahead : before(i, j)
    <3>1. \E i \in ahead : P(i)
      BY <2>3
    <3>2. Chosen(devs) = CHOOSE i \in ahead : P(i)
      BY <2>4
    <3> HIDE DEF P, ahead
    <3>3. Chosen(devs) \in ahead /\ P(Chosen(devs))
      BY <3>1, <3>2
    <3> QED
      BY <3>3 DEF P
  <2> QED
    BY <1>1, <2>5 DEF Oldest
<1> QED
  BY <1>2, <1>3

Pool == [step : 1 .. Steps + 1, try : 0 .. RetryCount - 1, failed : 0 .. Steps]

\* A poll goes on at a step of the pool or at its end, and fails no step it has not
\* passed.
LEMMA PollFromType ==
  ASSUME NEW device \in DeviceUnit, NEW s \in 1 .. device.steps + 1, NEW failed \in 0 .. s - 1
  PROVE  /\ PollFrom(s, failed, device) \in Pool
         /\ PollFrom(s, failed, device).failed < PollFrom(s, failed, device).step
         /\ PollFrom(s, failed, device).step \in s .. device.steps + 1
         /\ PollFrom(s, failed, device).try = 0
<1> DEFINE end == device.steps + 1
           P(n) == (n = end \/ n \notin device.broken) /\ s .. n - 1 \subseteq device.broken
           next == CHOOSE n \in s .. end : P(n)
           left == {n \in s .. end : n = end \/ n \notin device.broken}
<1>1. /\ Steps \in Nat \ {0} /\ RetryCount \in Nat \ {0}
      /\ device.steps \in 0 .. Steps
  BY ReadMasterAssumption DEF DeviceUnit
<1>2. PICK m \in left : \A n \in left : m <= n
  <2>1. left \in SUBSET Nat /\ end \in left
    BY <1>1
  <2> HIDE DEF left
  <2> QED
    BY <2>1, LeastNat
<1>3. m \in s .. end /\ P(m)
  BY <1>1, <1>2
<1>4. next \in s .. end
  <2> HIDE DEF P, end
  <2> QED
    BY <1>3
<1>5. PollFrom(s, failed, device) = [step |-> next, try |-> 0, failed |-> failed + (next - s)]
  BY DEF PollFrom
<1>6. /\ 0 \in 0 .. RetryCount - 1 /\ failed + (next - s) \in 0 .. Steps
      /\ next \in 1 .. Steps + 1 /\ failed + (next - s) < next
  <2> HIDE DEF next
  <2> QED
    BY <1>1, <1>4
<1> HIDE DEF next, P, left
<1> QED
  BY <1>1, <1>4, <1>5, <1>6 DEF Pool

-----------------------------------------------------------------------------
(* The helpers of the actions.                                               *)

LEMMA Constants ==
  /\ {Steps, RetryCount, Timeout, MinSleep} \subseteq Nat \ {0}
  /\ Start \in Nat \ {0} /\ MaxTime \in Nat /\ Start <= MaxTime
  /\ Reconnect \in Nat /\ NoDevices \in Nat /\ Reconnect <= NoDevices
  /\ {TimeoutStep, Cooldown, NoActive, Pause, ConnectTime, FetchTime, MaxChanges, MaxDropped}
       \subseteq Nat
BY ReadMasterAssumption

\* The end of a turn: the sleep reaches the time the next turn has work for.
LEMMA Turn ==
  ASSUME NEW devs \in Seq(DeviceUnit), NEW connected \in BOOLEAN, NEW retry_at \in Nat,
         NEW index, NEW t \in Nat, BackToSelect(devs, connected, retry_at, index, t)
  PROVE  /\ t <= MaxTime /\ now' = t /\ pc' = "select" /\ poll' = NoPoll
         /\ current' = IF devs # <<>> /\ connected THEN Chosen(devs) ELSE index
         /\ wake' \in Nat /\ t <= wake'
         /\ devs # <<>> /\ ~connected => retry_at <= wake'
         /\ devs = <<>> => t + Reconnect <= wake'
         /\ devs # <<>> /\ connected /\ devs[current'].active =>
              devs[current'].next_read_at <= wake'
<1> DEFINE next == WhenNext(devs, connected, retry_at, t)
<1>1. MinSleep \in Nat /\ NoActive \in Nat /\ NoDevices \in Nat /\ Reconnect \in Nat
  BY Constants
<1>2. next \in Nat
  <2>1. CASE devs = <<>>
    BY <1>1, <2>1 DEF WhenNext
  <2>2. CASE devs # <<>>
    <3>1. devs[Chosen(devs)].next_read_at \in Nat
      <4>1. devs[Chosen(devs)] \in DeviceUnit
        BY <2>2, ChosenIsOldest DEF Oldest
      <4> QED
        BY <4>1 DEF DeviceUnit
    <3>2. WhenNextDevice(devs) \in Nat
      BY <1>1, <3>1 DEF WhenNextDevice
    <3> QED
      BY <2>2, <3>2 DEF WhenNext, SaturatingSub
  <2> QED
    BY <2>1, <2>2
<1>3. /\ wake' = t + AtLeast(next, MinSleep)
      /\ t <= MaxTime /\ now' = t /\ pc' = "select" /\ poll' = NoPoll
      /\ current' = IF devs # <<>> /\ connected THEN Chosen(devs) ELSE index
  BY DEF BackToSelect
<1>4. wake' \in Nat /\ t + next <= wake'
  <2> HIDE DEF next
  <2> QED
    BY <1>1, <1>2, <1>3 DEF AtLeast
<1>5. CASE devs = <<>>
  <2>1. next = NoDevices /\ Reconnect <= NoDevices
    BY <1>5, Constants DEF WhenNext
  <2> HIDE DEF next
  <2> QED
    BY <1>1, <1>2, <1>3, <1>4, <1>5, <2>1
<1>6. CASE devs # <<>> /\ ~connected
  <2>1. next = SaturatingSub(retry_at, t)
    BY <1>6 DEF WhenNext
  <2> HIDE DEF next
  <2> QED
    BY <1>2, <1>3, <1>4, <1>6, <2>1 DEF SaturatingSub
<1>7. CASE devs # <<>> /\ connected
  <2>1. devs[Chosen(devs)] \in DeviceUnit
    BY <1>7, ChosenIsOldest DEF Oldest
  <2>2. devs[Chosen(devs)].next_read_at \in Nat
    BY <2>1 DEF DeviceUnit
  <2>3. devs[Chosen(devs)].active => next = SaturatingSub(devs[Chosen(devs)].next_read_at, t)
    BY <1>7 DEF WhenNext, WhenNextDevice
  <2> HIDE DEF next
  <2> QED
    BY <1>2, <1>3, <1>4, <1>7, <2>2, <2>3 DEF SaturatingSub
<1> QED
  BY <1>5, <1>6, <1>7

\* Lists that the scheduler cannot tell apart.
SameOrder(devs, old) ==
  /\ Len(devs) = Len(old)
  /\ \A i \in DOMAIN old :
       /\ devs[i].id = old[i].id
       /\ devs[i].active = old[i].active
       /\ devs[i].next_read_at = old[i].next_read_at
       /\ devs[i].steps = old[i].steps

LEMMA SameOrderOldest ==
  ASSUME NEW old \in Seq(DeviceUnit), NEW devs \in Seq(DeviceUnit), SameOrder(devs, old),
         NEW c, Oldest(old, c)
  PROVE  Oldest(devs, c)
<1>1. DOMAIN devs = DOMAIN old
  BY DEF SameOrder
<1> QED
  BY <1>1 DEF SameOrder, Oldest

LEMMA LongerTimeout ==
  ASSUME NEW devs \in Seq(DeviceUnit), NEW k \in DOMAIN devs, NEW x \in Nat
  PROVE  /\ [devs EXCEPT ![k].timeout = devs[k].timeout + x] \in Seq(DeviceUnit)
         /\ SameOrder([devs EXCEPT ![k].timeout = devs[k].timeout + x], devs)
<1>1. devs[k] \in DeviceUnit
  OBVIOUS
<1>0. devs[k].timeout \in Nat
  BY <1>1 DEF DeviceUnit
<1> DEFINE unit == [devs[k] EXCEPT !.timeout = devs[k].timeout + x]
<1>2. /\ unit \in DeviceUnit /\ unit.id = devs[k].id
      /\ unit.active = devs[k].active /\ unit.next_read_at = devs[k].next_read_at
      /\ unit.steps = devs[k].steps
  <2> DEFINE later == devs[k].timeout + x
  <2>1. later \in Nat
    BY <1>0
  <2>2. unit = [devs[k] EXCEPT !.timeout = later]
    OBVIOUS
  <2> HIDE DEF later, unit
  <2> QED
    BY <1>1, <2>1, <2>2 DEF DeviceUnit
<1> HIDE DEF unit
<1>3. [devs EXCEPT ![k] = unit] \in Seq(DeviceUnit) /\ SameOrder([devs EXCEPT ![k] = unit], devs)
  BY <1>2 DEF SameOrder
<1>4. [devs EXCEPT ![k].timeout = devs[k].timeout + x] = [devs EXCEPT ![k] = unit]
  BY DEF unit
<1> QED
  BY <1>3, <1>4

LEMMA StepBroken ==
  ASSUME NEW devs \in Seq(DeviceUnit), NEW k \in DOMAIN devs, NEW s \in 1 .. Steps
  PROVE  /\ [devs EXCEPT ![k].broken = devs[k].broken \cup {s}] \in Seq(DeviceUnit)
         /\ SameOrder([devs EXCEPT ![k].broken = devs[k].broken \cup {s}], devs)
<1> DEFINE unit == [devs[k] EXCEPT !.broken = devs[k].broken \cup {s}]
<1>1. devs[k] \in DeviceUnit
  OBVIOUS
<1>2. /\ unit \in DeviceUnit /\ unit.id = devs[k].id
      /\ unit.active = devs[k].active /\ unit.next_read_at = devs[k].next_read_at
      /\ unit.steps = devs[k].steps
  BY <1>1 DEF DeviceUnit
<1> HIDE DEF unit
<1>3. [devs EXCEPT ![k] = unit] \in Seq(DeviceUnit) /\ SameOrder([devs EXCEPT ![k] = unit], devs)
  BY <1>2 DEF SameOrder
<1>4. [devs EXCEPT ![k].broken = devs[k].broken \cup {s}] = [devs EXCEPT ![k] = unit]
  BY DEF unit
<1> QED
  BY <1>3, <1>4

LEMMA PolledAgain ==
  ASSUME NEW devs \in Seq(DeviceUnit), NEW k \in DOMAIN devs, NEW t \in Nat
  PROVE  [devs EXCEPT ![k].next_read_at = t] \in Seq(DeviceUnit)
<1> DEFINE unit == [devs[k] EXCEPT !.next_read_at = t]
<1>1. devs[k] \in DeviceUnit
  OBVIOUS
<1>2. unit \in DeviceUnit
  BY <1>1 DEF DeviceUnit
<1> HIDE DEF unit
<1>3. [devs EXCEPT ![k] = unit] \in Seq(DeviceUnit)
  BY <1>2
<1>4. [devs EXCEPT ![k].next_read_at = t] = [devs EXCEPT ![k] = unit]
  BY DEF unit
<1> QED
  BY <1>3, <1>4

-----------------------------------------------------------------------------
(* The inductive invariant.                                                  *)

\* What the user interface was told is true except while the node connects; a poll
\* has a connection.
LinkInv ==
  /\ ctx \in BOOLEAN
  /\ ctx_state \in {"UnConnected", "Connecting", "Connected"}
  /\ late \subseteq Ids
  /\ pc = "connect" => ~ctx
  /\ pc \in {"begin", "reading"} => ctx
  /\ pc \notin {"connect", "returned"} =>
       (ctx <=> ctx_state = "Connected") /\ ctx_state # "Connecting"

\* The current device is the oldest even after the turns that do not choose: nothing
\* between two choices changes a timestamp.
DeviceInv ==
  /\ config \in Configs
  /\ devices \in Seq(DeviceUnit)
  /\ current \in Nat /\ lastest \in Nat
  /\ devices # <<>> => Oldest(devices, current)
  /\ pc \in {"select", "devices", "tick", "connect", "begin", "reading", "cooldown",
             "returned", "panicked"}
  /\ goal \in {"update", "tick", "recover"}
  /\ pc = "devices" => goal # "recover"
  /\ pc \in {"tick", "begin", "reading", "cooldown"} => devices # <<>>
  /\ pc = "connect" /\ goal = "tick" => devices # <<>>

PollInv ==
  /\ poll \in Pool \cup {NoPoll}
  /\ pc = "reading" =>
       poll \in Pool /\ poll.failed < poll.step /\ poll.step <= Polled.steps + 1

\* A sleep without a connection lasts until the next attempt; no attempt is further
\* away than Reconnect, which is why the sleep of a node without devices is enough.
TimeInv ==
  /\ now \in Start .. MaxTime
  /\ wake \in Nat /\ last_connecting_time \in Nat
  /\ last_connecting_time <= now + Reconnect
  /\ pc = "select" /\ ~ctx => last_connecting_time <= wake
  /\ (pc = "tick" \/ (pc = "devices" /\ goal = "tick")) /\ ~ctx => last_connecting_time <= now

\* The current device is due when the sleep ends, and stays due until it is polled or
\* the devices are fetched again.
Awake ==
  \/ pc \in {"tick", "begin", "reading", "cooldown"}
  \/ pc = "connect" /\ goal # "update"
  \/ pc = "select" /\ ~ctx

DueInv ==
  devices # <<>> /\ devices[current].active =>
    /\ pc = "select" /\ ctx => devices[current].next_read_at <= wake
    /\ Awake => devices[current].next_read_at <= now

IndInv == LinkInv /\ DeviceInv /\ PollInv /\ TimeInv /\ DueInv

-----------------------------------------------------------------------------
(* Every action keeps it.                                                    *)

\* What follows create_devices, at time t.
FetchEnds(t) ==
  \/ /\ config.devices = <<>>
     /\ BackToSelect(devices', ctx, last_connecting_time, current, t)
  \/ /\ config.devices # <<>> /\ devices' = <<>>
     /\ pc' = "panicked" /\ now' = t
     /\ UNCHANGED <<current, poll, wake>>
  \/ /\ devices' # <<>> /\ goal = "update"
     /\ BackToSelect(devices', ctx, last_connecting_time, Chosen(devices'), t)
  \/ /\ devices' # <<>> /\ goal = "tick"
     /\ current' = Chosen(devices')
     /\ pc' = "tick" /\ now' = t
     /\ UNCHANGED <<poll, wake>>

\* create_devices: what was answered is due since its unit was made.
LEMMA Fetched ==
  ASSUME config \in Configs, now \in Nat, NEW n \in 0 .. Len(config.devices),
         NEW answered \in [1 .. n -> DOMAIN config.devices], FetchDevices(answered)
  PROVE  /\ devices' \in Seq(DeviceUnit) /\ Len(devices') = n
         /\ \A i \in 1 .. n :
              /\ devices'[i].id = config.devices[answered[i]].id
              /\ devices'[i].active = config.devices[answered[i]].active
              /\ devices'[i].timeout <= Timeout
         /\ \E t \in Nat :
              /\ now <= t /\ t <= now + FetchTime /\ t <= MaxTime
              /\ \A i \in 1 .. n :
                   /\ devices'[i].next_read_at \in Nat
                   /\ now <= devices'[i].next_read_at /\ devices'[i].next_read_at <= t
              /\ FetchEnds(t)
<1> DEFINE setting(i) == config.devices[answered[i]]
<1>1. config.devices \in Seq(DeviceSetting)
  BY ReadMasterAssumption
<1>2. n \in Nat /\ \A i \in 1 .. n : setting(i) \in DeviceSetting
  <2>1. n \in Nat
    BY <1>1
  <2>2. \A i \in 1 .. n : answered[i] \in DOMAIN config.devices
    OBVIOUS
  <2>3. \A k \in DOMAIN config.devices : config.devices[k] \in DeviceSetting
    <3> HIDE DEF setting
    <3> QED
      BY <1>1
  <2> QED
    BY <2>1, <2>2, <2>3
<1>3. FetchTime \in Nat /\ Timeout \in Nat
  BY Constants
<1>4. PICK t \in now .. now + FetchTime : \E created \in [DOMAIN answered -> now .. t] :
         LET devs == [i \in DOMAIN answered |-> NewDevice(config.devices[answered[i]], created[i])]
             complete == Len(devs) = Len(config.devices)
         IN  /\ pc = "devices" /\ t <= MaxTime
             /\ \A i, j \in DOMAIN answered :
                  i < j => answered[i] < answered[j] /\ created[i] <= created[j]
             /\ complete \/ bounded.dropped < MaxDropped
             /\ bounded' = IF complete THEN bounded ELSE [bounded EXCEPT !.dropped = @ + 1]
             /\ devices' = devs
             /\ \/ /\ config.devices = <<>>
                   /\ BackToSelect(devs, ctx, last_connecting_time, current, t)
                \/ /\ config.devices # <<>> /\ devs = <<>>
                   /\ pc' = "panicked" /\ now' = t
                   /\ UNCHANGED <<current, poll, wake>>
                \/ /\ devs # <<>> /\ goal = "update"
                   /\ BackToSelect(devs, ctx, last_connecting_time, Chosen(devs), t)
                \/ /\ devs # <<>> /\ goal = "tick"
                   /\ current' = Chosen(devs)
                   /\ pc' = "tick" /\ now' = t
                   /\ UNCHANGED <<poll, wake>>
             /\ UNCHANGED <<busVars, addr, linkVars, lastest, goal>>
  BY Zenon DEF FetchDevices
<1>5. PICK created \in [1 .. n -> now .. t] :
             /\ t <= MaxTime
             /\ devices' = [i \in 1 .. n |-> NewDevice(setting(i), created[i])]
             /\ FetchEnds(t)
  <2>1. DOMAIN answered = 1 .. n
    OBVIOUS
  <2>2. PICK created \in [DOMAIN answered -> now .. t] :
               /\ t <= MaxTime
               /\ devices' = [i \in DOMAIN answered |-> NewDevice(setting(i), created[i])]
               /\ FetchEnds(t)
    BY <1>4, Zenon DEF FetchEnds
  <2> QED
    BY <2>1, <2>2, Zenon
<1> HIDE DEF setting
<1>6. \A i \in 1 .. n : created[i] \in Nat /\ now <= created[i] /\ created[i] <= t
  <2>1. \A i \in 1 .. n : created[i] \in now .. t
    OBVIOUS
  <2> QED
    BY <1>3, <2>1
<1>7. \A i \in 1 .. n : NewDevice(setting(i), created[i]) \in DeviceUnit
  <2> SUFFICES ASSUME NEW i \in 1 .. n
               PROVE  NewDevice(setting(i), created[i]) \in DeviceUnit
    OBVIOUS
  <2>1. created[i] \in Nat /\ setting(i) \in DeviceSetting
    BY <1>2, <1>6
  <2> QED
    BY <1>3, <2>1 DEF NewDevice, DeviceUnit, DeviceSetting
<1>8. devices' \in Seq(DeviceUnit) /\ Len(devices') = n
  BY <1>2, <1>5, <1>7
<1>9. \A i \in 1 .. n :
        /\ devices'[i].id = config.devices[answered[i]].id
        /\ devices'[i].active = config.devices[answered[i]].active
        /\ devices'[i].timeout <= Timeout
        /\ devices'[i].next_read_at = created[i]
  <2> SUFFICES ASSUME NEW i \in 1 .. n
               PROVE  /\ devices'[i].id = config.devices[answered[i]].id
                      /\ devices'[i].active = config.devices[answered[i]].active
                      /\ devices'[i].timeout <= Timeout
                      /\ devices'[i].next_read_at = created[i]
    OBVIOUS
  <2>1. devices'[i] = NewDevice(setting(i), created[i])
    BY <1>5
  <2>2. setting(i).timeout <= Timeout
    BY <1>2, <1>3 DEF DeviceSetting
  <2> QED
    BY <2>1, <2>2 DEF NewDevice, setting
<1>10. t \in Nat /\ now <= t /\ t <= now + FetchTime
  BY <1>3
<1>11. \A i \in 1 .. n :
         /\ devices'[i].next_read_at \in Nat
         /\ now <= devices'[i].next_read_at /\ devices'[i].next_read_at <= t
  BY <1>6, <1>9
<1> QED
  BY <1>5, <1>8, <1>9, <1>10, <1>11, Zenon

\* What create_devices leaves alone, and whether everything was answered.
LEMMA FetchKeeps ==
  ASSUME NEW n \in Nat, NEW answered \in [1 .. n -> DOMAIN config.devices],
         FetchDevices(answered)
  PROVE  /\ pc = "devices" /\ UNCHANGED <<config, bus, addr, ctx, ctx_state, lastest, goal>>
         /\ last_connecting_time' = last_connecting_time /\ late' = late
         /\ \A i, j \in 1 .. n : i < j => answered[i] < answered[j]
         /\ \/ n = Len(config.devices) /\ bounded' = bounded
            \/ bounded' = [bounded EXCEPT !.dropped = bounded.dropped + 1]
<1>1. DOMAIN answered = 1 .. n
  OBVIOUS
<1>2. PICK t \in now .. now + FetchTime : \E len :
             /\ \E created \in [DOMAIN answered -> now .. t] :
                  len = Len([i \in DOMAIN answered |->
                               NewDevice(config.devices[answered[i]], created[i])])
             /\ bounded' = IF len = Len(config.devices) THEN bounded
                           ELSE [bounded EXCEPT !.dropped = bounded.dropped + 1]
             /\ \A i, j \in DOMAIN answered : i < j => answered[i] < answered[j]
  BY Zenon DEF FetchDevices
<1>5. PICK len :
             /\ \E created \in [DOMAIN answered -> now .. t] :
                  len = Len([i \in DOMAIN answered |->
                               NewDevice(config.devices[answered[i]], created[i])])
             /\ bounded' = IF len = Len(config.devices) THEN bounded
                           ELSE [bounded EXCEPT !.dropped = bounded.dropped + 1]
             /\ \A i, j \in DOMAIN answered : i < j => answered[i] < answered[j]
  BY <1>2, Zenon
<1>3. len = n
  BY <1>1, <1>5
<1>4. pc = "devices" /\ UNCHANGED <<busVars, addr, linkVars, lastest, goal>>
  BY Zenon DEF FetchDevices
<1> QED
  BY <1>1, <1>3, <1>4, <1>5 DEF busVars, linkVars

LEMMA FetchKeepsAll ==
  ASSUME config \in Configs,
         \E n \in 0 .. Len(config.devices) :
             \E answered \in [1 .. n -> DOMAIN config.devices] : FetchDevices(answered)
  PROVE  /\ bus' = bus
         /\ bounded' = bounded \/ bounded' = [bounded EXCEPT !.dropped = bounded.dropped + 1]
<1>1. config.devices \in Seq(DeviceSetting)
  BY ReadMasterAssumption
<1>2. PICK n \in 0 .. Len(config.devices) :
             \E answered \in [1 .. n -> DOMAIN config.devices] : FetchDevices(answered)
  OBVIOUS
<1>3. PICK answered \in [1 .. n -> DOMAIN config.devices] : FetchDevices(answered)
  BY <1>2
<1>4. n \in Nat
  BY <1>1
<1> QED
  BY <1>3, <1>4, FetchKeeps

\* While a device is polled.
LEMMA PolledUnit ==
  ASSUME IndInv, pc = "reading"
  PROVE  /\ devices \in Seq(DeviceUnit) /\ current \in DOMAIN devices
         /\ Polled \in DeviceUnit /\ Polled.timeout \in Nat /\ Polled.steps \in 0 .. Steps
         /\ Polled.retry_count \in 0 .. RetryCount /\ Polled.time_for_recall \in Nat
         /\ poll \in Pool /\ poll.failed < poll.step /\ poll.step <= Polled.steps + 1
<1>1. /\ devices \in Seq(DeviceUnit) /\ current \in DOMAIN devices
      /\ Polled \in DeviceUnit
  BY DEF IndInv, DeviceInv, Oldest, Polled
<1> QED
  BY <1>1 DEF DeviceUnit, IndInv, PollInv

LEMMA ReadingStep ==
  ASSUME IndInv, Reading
  PROVE  /\ poll.step \in 1 .. Steps /\ poll.try \in 0 .. RetryCount - 1
         /\ poll.step + 1 \in 1 .. Polled.steps + 1
         /\ poll.failed \in 0 .. (poll.step + 1) - 1 /\ poll.failed + 1 \in 0 .. (poll.step + 1) - 1
<1>1. /\ poll.step \in 1 .. Steps + 1 /\ poll.try \in 0 .. RetryCount - 1
      /\ poll.failed \in 0 .. Steps /\ poll.failed < poll.step
      /\ poll.step <= Polled.steps /\ Polled.steps \in 0 .. Steps
  BY PolledUnit DEF Reading, Pool
<1>2. Steps \in Nat
  BY Constants
<1> QED
  BY <1>1, <1>2

LEMMA TimePasses ==
  ASSUME IndInv, Reading, Answered
  PROVE  now' \in Nat /\ now <= now' /\ now' <= MaxTime /\ now' <= now + Polled.timeout
<1>1. Polled.timeout \in Nat /\ now \in Nat
  BY PolledUnit, Constants DEF Reading, IndInv, TimeInv
<1> QED
  BY <1>1 DEF Answered

\* A read that does not end the poll.
LEMMA PollGoesOn ==
  ASSUME IndInv, ReadOk \/ ReadTimeout \/ ReadRemoveStep
  PROVE  /\ Reading /\ Answered /\ pc = "reading" /\ pc' = "reading"
         /\ UNCHANGED <<current, goal, wake, ctx, last_connecting_time>>
         /\ devices' \in Seq(DeviceUnit) /\ SameOrder(devices', devices)
         /\ \A i \in DOMAIN devices' : devices'[i].timeout = devices[i].timeout
<1>1. /\ Reading /\ Answered /\ pc = "reading" /\ pc' = "reading"
      /\ UNCHANGED <<current, goal, wake, ctx, last_connecting_time>>
  BY DEF ReadOk, ReadTimeout, ReadRemoveStep, Reading, linkVars
<1>2. /\ devices \in Seq(DeviceUnit) /\ current \in DOMAIN devices
      /\ poll.step \in 1 .. Steps
  BY <1>1, PolledUnit, ReadingStep
<1>3. CASE devices' = devices
  BY <1>1, <1>2, <1>3 DEF SameOrder
<1>4. CASE ReadRemoveStep
  <2>1. devices' = [devices EXCEPT ![current].broken = devices[current].broken \cup {poll.step}]
    BY <1>4 DEF ReadRemoveStep
  <2>2. devices' \in Seq(DeviceUnit) /\ SameOrder(devices', devices)
    BY <1>2, <2>1, StepBroken
  <2> DEFINE unit == [devices[current] EXCEPT !.broken = devices[current].broken \cup {poll.step}]
  <2>3. unit.timeout = devices[current].timeout
    <3>1. devices[current] \in DeviceUnit
      BY <1>2
    <3> QED
      BY <3>1 DEF DeviceUnit
  <2>4. devices' = [devices EXCEPT ![current] = unit]
    BY <2>1
  <2> HIDE DEF unit
  <2>5. \A i \in DOMAIN devices' : devices'[i].timeout = devices[i].timeout
    BY <1>2, <2>3, <2>4
  <2> QED
    BY <1>1, <2>2, <2>5
<1> QED
  BY <1>3, <1>4 DEF ReadOk, ReadTimeout

LEMMA LinkStep ==
  ASSUME IndInv, Next
  PROVE  LinkInv'
<1> USE DEF IndInv, LinkInv, linkVars, busVars
<1>1. CASE \E c \in Configs : ChangeConfig(c)
  BY <1>1 DEF ChangeConfig
<1>2. CASE DeleteNode
  BY <1>2 DEF DeleteNode
<1>3. CASE ReceiveUpdate
  BY <1>3 DEF ReceiveUpdate, StartConnecting
<1>4. CASE ReceiveDelete
  BY <1>4 DEF ReceiveDelete
<1>5. CASE Wake
  BY <1>5 DEF Wake
<1>6. CASE \E n \in 0 .. Len(config.devices) :
             \E answered \in [1 .. n -> DOMAIN config.devices] : FetchDevices(answered)
  BY <1>6 DEF FetchDevices, BackToSelect
<1>7. CASE TickConnected
  BY <1>7 DEF TickConnected
<1>8. CASE TickConnect
  BY <1>8 DEF TickConnect, StartConnecting
<1>9. CASE \E t \in now .. now + ConnectTime : ConnectOk(t)
  BY <1>9 DEF ConnectOk, ConnectEnds, BackToSelect
<1>10. CASE \E t \in now .. now + ConnectTime : ConnectFails(t)
  BY <1>10 DEF ConnectFails, ConnectEnds, Disconnecting, BackToSelect
<1>11. CASE BeginInactive
  BY <1>11 DEF BeginInactive, BackToSelect
<1>12. CASE Begin
  BY <1>12 DEF Begin
<1>13. CASE ReadOk
  BY <1>13 DEF ReadOk
<1>14. CASE ReadTimeout
  <2>1. Polled.id \in Ids
    <3>1. devices[current] \in DeviceUnit
      BY <1>14 DEF ReadTimeout, Reading, DeviceInv, Oldest
    <3> QED
      BY <3>1 DEF Polled, DeviceUnit
  <2> QED
    BY <1>14, <2>1 DEF ReadTimeout
<1>15. CASE ReadRemoveStep
  BY <1>15 DEF ReadRemoveStep
<1>16. CASE ReadSocketFail
  BY <1>16 DEF ReadSocketFail, Disconnecting, BackToSelect
<1>17. CASE ReadHeaderMisMatch
  BY <1>17 DEF ReadHeaderMisMatch, Disconnecting, Reading
<1>18. CASE Recover
  BY <1>18 DEF Recover, StartConnecting
<1>19. CASE Finish
  BY <1>19 DEF Finish, BackToSelect
<1> QED
  BY <1>1, <1>2, <1>3, <1>4, <1>5, <1>6, <1>7, <1>8, <1>9, <1>10, <1>11, <1>12, <1>13,
     <1>14, <1>15, <1>16, <1>17, <1>18, <1>19 DEF Next

LEMMA DeviceStep ==
  ASSUME IndInv, Next
  PROVE  DeviceInv'
<1> USE DEF IndInv, DeviceInv, linkVars, busVars
<1>0. now \in Nat /\ last_connecting_time \in Nat /\ ctx \in BOOLEAN
  BY Constants DEF TimeInv, LinkInv
<1>1. CASE \E c \in Configs : ChangeConfig(c)
  BY <1>1 DEF ChangeConfig
<1>2. CASE DeleteNode
  BY <1>2 DEF DeleteNode
<1>3. CASE ReceiveUpdate
  BY <1>3 DEF ReceiveUpdate, StartConnecting
<1>4. CASE ReceiveDelete
  BY <1>4 DEF ReceiveDelete
<1>5. CASE Wake
  BY <1>5 DEF Wake
<1>6. CASE \E n \in 0 .. Len(config.devices) :
             \E answered \in [1 .. n -> DOMAIN config.devices] : FetchDevices(answered)
  <2>1. PICK n \in 0 .. Len(config.devices) :
               \E answered \in [1 .. n -> DOMAIN config.devices] : FetchDevices(answered)
    BY <1>6
  <2>2. PICK answered \in [1 .. n -> DOMAIN config.devices] : FetchDevices(answered)
    BY <2>1
  <2>3. devices' \in Seq(DeviceUnit) /\ Len(devices') = n
    BY <1>0, <2>2, Fetched
  <2>4. PICK t \in Nat : FetchEnds(t)
    BY <1>0, <2>2, Fetched
  <2>5. devices' # <<>> => Oldest(devices', Chosen(devices')) /\ Chosen(devices') \in Nat
    <3>1. devices' # <<>> => Oldest(devices', Chosen(devices'))
      BY <2>3, ChosenIsOldest
    <3> QED
      BY <2>3, <3>1 DEF Oldest
  <2>6. UNCHANGED <<config, lastest, goal>>
    BY <2>2 DEF FetchDevices
  <2>7. CASE /\ config.devices = <<>>
             /\ BackToSelect(devices', ctx, last_connecting_time, current, t)
    <3>1. devices' = <<>>
      BY <2>3, <2>7
    <3> QED
      BY <2>6, <2>7, <3>1 DEF BackToSelect
  <2>8. CASE devices' = <<>> /\ pc' = "panicked" /\ current' = current
    BY <2>6, <2>8
  <2>9. CASE /\ devices' # <<>> /\ goal = "update"
             /\ BackToSelect(devices', ctx, last_connecting_time, Chosen(devices'), t)
    <3>1. current' = Chosen(devices') /\ pc' = "select"
      BY <2>9 DEF BackToSelect
    <3> QED
      BY <2>3, <2>5, <2>6, <2>9, <3>1
  <2>10. CASE devices' # <<>> /\ current' = Chosen(devices') /\ pc' = "tick"
    BY <2>3, <2>5, <2>6, <2>10
  <2> QED
    BY <2>4, <2>7, <2>8, <2>9, <2>10 DEF FetchEnds
<1>7. CASE TickConnected
  BY <1>7 DEF TickConnected
<1>8. CASE TickConnect
  BY <1>8 DEF TickConnect, StartConnecting
<1>9. CASE \E t \in now .. now + ConnectTime : ConnectOk(t)
  <2>1. devices # <<>> => Oldest(devices, Chosen(devices)) /\ Chosen(devices) \in Nat
    BY ChosenIsOldest DEF Oldest
  <2> QED
    BY <1>9, <2>1 DEF ConnectOk, ConnectEnds, BackToSelect
<1>10. CASE \E t \in now .. now + ConnectTime : ConnectFails(t)
  BY <1>10 DEF ConnectFails, ConnectEnds, BackToSelect
<1>11. CASE BeginInactive
  <2>1. devices # <<>> => Oldest(devices, Chosen(devices)) /\ Chosen(devices) \in Nat
    BY ChosenIsOldest DEF Oldest
  <2> QED
    BY <1>11, <2>1 DEF BeginInactive, BackToSelect
<1>12. CASE Begin
  BY <1>12 DEF Begin
<1>13. CASE ReadOk
  BY <1>13 DEF ReadOk, Reading
<1>14. CASE ReadTimeout
  BY <1>14 DEF ReadTimeout, Reading
<1>15. CASE ReadRemoveStep
  <2>1. poll.step \in 1 .. Steps /\ current \in DOMAIN devices
    BY <1>15, ReadingStep DEF ReadRemoveStep, Reading, Oldest
  <2>2. devices' \in Seq(DeviceUnit) /\ SameOrder(devices', devices)
    BY <1>15, <2>1, StepBroken DEF ReadRemoveStep
  <2>3. devices' # <<>> => devices # <<>>
    BY <2>2 DEF SameOrder
  <2>4. Oldest(devices', current)
    BY <1>15, <2>2, SameOrderOldest DEF ReadRemoveStep, Reading
  <2>5. devices' # <<>>
    BY <2>2, <2>4 DEF Oldest
  <2> QED
    BY <1>15, <2>2, <2>4, <2>5 DEF ReadRemoveStep, Reading
<1>16. CASE ReadSocketFail
  BY <1>16 DEF ReadSocketFail, BackToSelect
<1>17. CASE ReadHeaderMisMatch
  <2>1. Blamed \in Nat
    BY DEF Blamed
  <2>2. CASE Blamed > Len(devices) \/ Blamed = 0
    BY <1>17, <2>2 DEF ReadHeaderMisMatch, Reading
  <2>3. CASE Blamed \in DOMAIN devices
    <3>1. TimeoutStep \in Nat
      BY Constants
    <3>2. devices' \in Seq(DeviceUnit) /\ SameOrder(devices', devices)
      BY <1>17, <2>3, <3>1, LongerTimeout DEF ReadHeaderMisMatch
    <3>3. Oldest(devices', current)
      BY <1>17, <3>2, SameOrderOldest DEF ReadHeaderMisMatch, Reading
    <3>4. devices' # <<>>
      BY <3>2, <3>3 DEF Oldest
    <3> QED
      BY <1>17, <3>2, <3>3, <3>4 DEF ReadHeaderMisMatch, Reading
  <2> QED
    BY <2>1, <2>2, <2>3
<1>18. CASE Recover
  BY <1>18 DEF Recover, StartConnecting
<1>19. CASE Finish
  <2>1. current \in DOMAIN devices /\ now + Polled.time_for_recall \in Nat
    <3>1. Polled.time_for_recall \in Nat
      BY <1>19, PolledUnit DEF Finish
    <3> QED
      BY <1>0, <1>19, <3>1 DEF Finish, Oldest
  <2>2. devices' \in Seq(DeviceUnit)
    BY <1>19, <2>1, PolledAgain DEF Finish
  <2>3. devices' # <<>> => Oldest(devices', Chosen(devices')) /\ Chosen(devices') \in Nat
    <3>1. devices' # <<>> => Oldest(devices', Chosen(devices'))
      BY <2>2, ChosenIsOldest
    <3> QED
      BY <2>2, <3>1 DEF Oldest
  <2>4. ctx
    BY <1>19 DEF Finish, LinkInv
  <2>5. current' = (IF devices' # <<>> THEN Chosen(devices') ELSE current) /\ pc' = "select"
    BY <1>19, <2>4 DEF Finish, BackToSelect
  <2> QED
    BY <1>19, <2>1, <2>2, <2>3, <2>5 DEF Finish
<1> QED
  BY <1>1, <1>2, <1>3, <1>4, <1>5, <1>6, <1>7, <1>8, <1>9, <1>10, <1>11, <1>12, <1>13,
     <1>14, <1>15, <1>16, <1>17, <1>18, <1>19 DEF Next

LEMMA PollStep ==
  ASSUME IndInv, Next
  PROVE  PollInv'
<1> USE DEF IndInv, PollInv, linkVars, busVars
<1>0. /\ Steps \in Nat \ {0} /\ RetryCount \in Nat \ {0}
      /\ pc = "reading" => Polled \in DeviceUnit
  <2>1. pc = "reading" => Polled \in DeviceUnit
    BY PolledUnit
  <2> QED
    BY <2>1, Constants
<1>1. CASE \E c \in Configs : ChangeConfig(c)
  BY <1>1 DEF ChangeConfig, Polled
<1>2. CASE DeleteNode
  BY <1>2 DEF DeleteNode, Polled
<1>3. CASE ReceiveUpdate
  BY <1>3 DEF ReceiveUpdate, StartConnecting
<1>4. CASE ReceiveDelete
  BY <1>4 DEF ReceiveDelete
<1>5. CASE Wake
  BY <1>5 DEF Wake
<1>6. CASE \E n \in 0 .. Len(config.devices) :
             \E answered \in [1 .. n -> DOMAIN config.devices] : FetchDevices(answered)
  BY <1>6 DEF FetchDevices, BackToSelect
<1>7. CASE TickConnected
  BY <1>7 DEF TickConnected
<1>8. CASE TickConnect
  BY <1>8 DEF TickConnect, StartConnecting
<1>9. CASE \E t \in now .. now + ConnectTime : ConnectOk(t)
  BY <1>9 DEF ConnectOk, ConnectEnds, BackToSelect
<1>10. CASE \E t \in now .. now + ConnectTime : ConnectFails(t)
  BY <1>10 DEF ConnectFails, ConnectEnds, BackToSelect
<1>11. CASE BeginInactive
  BY <1>11 DEF BeginInactive, BackToSelect
<1>12. CASE Begin
  <2>1. Polled \in DeviceUnit
    BY <1>12 DEF Begin, DeviceInv, Oldest, Polled
  <2>2. 1 \in 1 .. Polled.steps + 1 /\ 0 \in 0 .. 1 - 1
    BY <1>0, <2>1 DEF DeviceUnit
  <2>3. /\ PollFrom(1, 0, Polled) \in Pool
        /\ PollFrom(1, 0, Polled).failed < PollFrom(1, 0, Polled).step
        /\ PollFrom(1, 0, Polled).step \in 1 .. Polled.steps + 1
    BY <2>1, <2>2, PollFromType
  <2>4. PollFrom(1, 0, Polled).step <= Polled.steps + 1
    BY <2>3
  <2>5. Polled' = Polled
    BY <1>12 DEF Begin, Polled
  <2> QED
    BY <1>12, <2>3, <2>4, <2>5 DEF Begin
<1>13. CASE ReadOk \/ ReadTimeout \/ ReadRemoveStep
  <2>1. Reading /\ pc = "reading" /\ pc' = "reading"
    BY <1>13, PollGoesOn
  <2>2. Polled'.steps = Polled.steps
    <3>1. current' = current /\ SameOrder(devices', devices) /\ current \in DOMAIN devices
      BY <1>13, <2>1, PollGoesOn, PolledUnit
    <3> QED
      BY <3>1 DEF SameOrder, Polled
  <2>3. /\ Polled \in DeviceUnit /\ Polled.steps \in 0 .. Steps /\ poll \in Pool
        /\ poll.failed < poll.step
    BY <2>1, PolledUnit
  <2>4. CASE \E failed \in 0 .. (poll.step + 1) - 1 :
               poll' = PollFrom(poll.step + 1, failed, Polled)
    <3>1. PICK failed \in 0 .. (poll.step + 1) - 1 :
                 poll' = PollFrom(poll.step + 1, failed, Polled)
      BY <2>4
    <3>2. poll.step + 1 \in 1 .. Polled.steps + 1
      BY <2>1, ReadingStep
    <3>3. /\ poll' \in Pool /\ poll'.failed < poll'.step
          /\ poll'.step \in poll.step + 1 .. Polled.steps + 1
      BY <2>3, <3>1, <3>2, PollFromType
    <3>4. poll'.step <= Polled.steps + 1
      BY <3>3
    <3> QED
      BY <2>2, <3>3, <3>4
  <2>5. CASE poll.try + 1 < Polled.retry_count /\ poll' = [poll EXCEPT !.try = poll.try + 1]
    <3>1. poll.try + 1 \in 0 .. RetryCount - 1
      <4>1. Polled.retry_count \in 0 .. RetryCount /\ poll.try \in 0 .. RetryCount - 1
        BY <2>1, PolledUnit, ReadingStep
      <4> QED
        BY <1>0, <2>5, <4>1
    <3>2. poll' \in Pool /\ poll'.failed = poll.failed /\ poll'.step = poll.step
      BY <2>3, <2>5, <3>1 DEF Pool
    <3>3. poll.step <= Polled.steps + 1
      BY <2>1, PolledUnit
    <3> QED
      BY <2>2, <2>3, <3>2, <3>3
  <2>6. poll.failed \in 0 .. (poll.step + 1) - 1 /\ poll.failed + 1 \in 0 .. (poll.step + 1) - 1
    BY <2>1, ReadingStep
  <2> QED
    BY <1>13, <2>4, <2>5, <2>6 DEF ReadOk, ReadTimeout, ReadRemoveStep
<1>14. CASE ReadSocketFail
  BY <1>14 DEF ReadSocketFail, BackToSelect
<1>15. CASE ReadHeaderMisMatch
  BY <1>15 DEF ReadHeaderMisMatch, Reading
<1>16. CASE Recover
  BY <1>16 DEF Recover, StartConnecting
<1>17. CASE Finish
  BY <1>17 DEF Finish, BackToSelect
<1> QED
  BY <1>1, <1>2, <1>3, <1>4, <1>5, <1>6, <1>7, <1>8, <1>9, <1>10, <1>11, <1>12, <1>13,
     <1>14, <1>15, <1>16, <1>17 DEF Next

LEMMA Later ==
  ASSUME NEW retry_at \in Nat, NEW t \in Nat, NEW t2 \in Nat, NEW d \in Nat,
         retry_at <= t + d, t <= t2
  PROVE  retry_at <= t2 + d
OBVIOUS

LEMMA NoFurther ==
  ASSUME NEW retry_at, NEW t \in Nat, NEW d \in Nat, retry_at = t + d
  PROVE  retry_at <= t + d
OBVIOUS

\* A poll that is through ends its turn after the pause.
LEMMA FinishTurn ==
  ASSUME IndInv, Finish
  PROVE  \E t \in Nat :
           /\ now <= t /\ t <= now + Pause
           /\ BackToSelect(devices', ctx, last_connecting_time, current, t)
<1>1. now \in Nat /\ Pause \in Nat
  BY Constants DEF IndInv, TimeInv
<1> DEFINE t == now + IF Len(devices) > 1 THEN Pause ELSE 0
<1>2. t \in Nat /\ now <= t /\ t <= now + Pause
  BY <1>1
<1>3. BackToSelect(devices', ctx, last_connecting_time, current, t)
  BY DEF Finish
<1> HIDE DEF t
<1> QED
  BY <1>2, <1>3

LEMMA TimeStep ==
  ASSUME IndInv, Next
  PROVE  TimeInv'
<1> USE DEF IndInv, TimeInv, linkVars, busVars
<1>0. /\ Start \in Nat /\ MaxTime \in Nat /\ Reconnect \in Nat /\ ConnectTime \in Nat
      /\ Cooldown \in Nat /\ now \in Nat /\ Start <= now
      /\ wake \in Nat /\ last_connecting_time \in Nat
      /\ last_connecting_time <= now + Reconnect
      /\ devices \in Seq(DeviceUnit) /\ ctx \in BOOLEAN
  BY Constants DEF DeviceInv, LinkInv
<1>1. CASE \E c \in Configs : ChangeConfig(c)
  BY <1>1 DEF ChangeConfig
<1>2. CASE DeleteNode
  BY <1>2 DEF DeleteNode
<1>3. CASE ReceiveUpdate
  <2>1. now' \in Nat /\ now <= now' /\ now' <= MaxTime /\ wake' = wake
    BY <1>0, <1>3 DEF ReceiveUpdate, AtLeast
  <2>2. last_connecting_time' = last_connecting_time
    BY <1>3 DEF ReceiveUpdate, StartConnecting
  <2>3. pc' = "connect" \/ (pc' = "devices" /\ goal' = "update")
    BY <1>3 DEF ReceiveUpdate, StartConnecting
  <2>4. /\ now' \in Start .. MaxTime /\ wake' \in Nat /\ last_connecting_time' \in Nat
        /\ last_connecting_time' <= now' + Reconnect
    <3>1. last_connecting_time <= now' + Reconnect
      BY <1>0, <2>1, Later
    <3>2. now' \in Start .. MaxTime
      BY <1>0, <2>1
    <3> QED
      BY <1>0, <2>1, <2>2, <3>1, <3>2
  <2> QED
    BY <2>3, <2>4
<1>4. CASE ReceiveDelete
  BY <1>4 DEF ReceiveDelete
<1>5. CASE Wake
  <2>1. now' \in Nat /\ now <= now' /\ wake <= now' /\ now' <= MaxTime /\ wake' = wake
    BY <1>0, <1>5 DEF Wake, AtLeast
  <2>2. /\ last_connecting_time' = last_connecting_time /\ ctx' = ctx
        /\ pc = "select" /\ pc' # "select"
    BY <1>5 DEF Wake
  <2>3. /\ now' \in Start .. MaxTime /\ wake' \in Nat /\ last_connecting_time' \in Nat
        /\ last_connecting_time' <= now' + Reconnect
    <3>1. last_connecting_time <= now' + Reconnect
      BY <1>0, <2>1, Later
    <3>2. now' \in Start .. MaxTime
      BY <1>0, <2>1
    <3> QED
      BY <1>0, <2>1, <2>2, <3>1, <3>2
  <2>4. ~ctx => last_connecting_time <= now'
    BY <1>0, <2>1, <2>2
  <2> QED
    BY <2>2, <2>3, <2>4
<1>6. CASE \E n \in 0 .. Len(config.devices) :
             \E answered \in [1 .. n -> DOMAIN config.devices] : FetchDevices(answered)
  <2>1. PICK n \in 0 .. Len(config.devices) :
               \E answered \in [1 .. n -> DOMAIN config.devices] : FetchDevices(answered)
    BY <1>6
  <2>2. PICK answered \in [1 .. n -> DOMAIN config.devices] : FetchDevices(answered)
    BY <2>1
  <2>3. devices' \in Seq(DeviceUnit)
    BY <1>0, <2>2, Fetched DEF DeviceInv
  <2>4. PICK t \in Nat : now <= t /\ t <= MaxTime /\ FetchEnds(t)
    BY <1>0, <2>2, Fetched DEF DeviceInv
  <2>5. /\ last_connecting_time' = last_connecting_time /\ ctx' = ctx
        /\ pc = "devices" /\ goal' = goal
    BY <2>2 DEF FetchDevices
  <2>6. t \in Start .. MaxTime /\ last_connecting_time <= t + Reconnect
    BY <1>0, <2>4
  <2>7. CASE \E index : BackToSelect(devices', ctx, last_connecting_time, index, t)
    <3>1. PICK index : BackToSelect(devices', ctx, last_connecting_time, index, t)
      BY <2>7
    <3>2. /\ now' = t /\ pc' = "select" /\ wake' \in Nat
          /\ devices' # <<>> /\ ~ctx => last_connecting_time <= wake'
          /\ devices' = <<>> => t + Reconnect <= wake'
      BY <1>0, <2>3, <2>4, <3>1, Turn
    <3>3. last_connecting_time <= t + Reconnect /\ t + Reconnect \in Nat
      BY <1>0, <2>4, <2>6
    <3>4. ~ctx => last_connecting_time <= wake'
      BY <1>0, <3>2, <3>3
    <3> QED
      BY <1>0, <2>5, <2>6, <3>2, <3>4
  <2>8. CASE pc' = "panicked" /\ now' = t /\ wake' = wake
    BY <1>0, <2>5, <2>6, <2>8
  <2>9. CASE goal = "tick" /\ pc' = "tick" /\ now' = t /\ wake' = wake
    BY <1>0, <2>4, <2>5, <2>6, <2>9
  <2> QED
    BY <2>4, <2>7, <2>8, <2>9 DEF FetchEnds
<1>7. CASE TickConnected
  BY <1>7 DEF TickConnected
<1>8. CASE TickConnect
  BY <1>8 DEF TickConnect, StartConnecting
<1>9. CASE \E t \in now .. now + ConnectTime : ConnectOk(t)
  <2>1. PICK t \in now .. now + ConnectTime : ConnectOk(t)
    BY <1>9
  <2>2. t \in Nat /\ now <= t /\ t <= MaxTime
    BY <1>0, <2>1 DEF ConnectOk, ConnectEnds
  <2>3. ctx' /\ last_connecting_time' = last_connecting_time
    BY <2>1 DEF ConnectOk
  <2>4. CASE now' = t /\ wake' = wake
    BY <1>0, <2>2, <2>3, <2>4
  <2>5. CASE BackToSelect(devices, TRUE, last_connecting_time', current, t)
    <3>1. now' = t /\ wake' \in Nat
      BY <1>0, <2>2, <2>3, <2>5, Turn
    <3> QED
      BY <1>0, <2>2, <2>3, <3>1
  <2> QED
    BY <2>1, <2>4, <2>5 DEF ConnectOk, ConnectEnds
<1>10. CASE \E t \in now .. now + ConnectTime : ConnectFails(t)
  <2>1. PICK t \in now .. now + ConnectTime : ConnectFails(t)
    BY <1>10
  <2>2. t \in Nat /\ now <= t /\ t <= MaxTime
    BY <1>0, <2>1 DEF ConnectFails, ConnectEnds
  <2>3. ~ctx' /\ last_connecting_time' = t + Reconnect
    BY <2>1 DEF ConnectFails, Disconnecting
  <2>4. CASE goal' = "update" /\ pc' = "devices" /\ now' = t /\ wake' = wake
    BY <1>0, <2>2, <2>3, <2>4
  <2>5. CASE BackToSelect(devices, FALSE, last_connecting_time', current, t)
    <3>1. last_connecting_time' \in Nat
      BY <1>0, <2>2, <2>3
    <3>2. /\ now' = t /\ wake' \in Nat /\ pc' = "select"
          /\ devices # <<>> => last_connecting_time' <= wake'
          /\ devices = <<>> => t + Reconnect <= wake'
      BY <1>0, <2>2, <2>5, <3>1, Turn, ZenonT(30)
    <3> QED
      BY <1>0, <2>2, <2>3, <3>2
  <2> QED
    BY <2>1, <2>4, <2>5 DEF ConnectFails, ConnectEnds
<1>11. CASE BeginInactive
  <2>1. /\ BackToSelect(devices, ctx, last_connecting_time, current, now)
        /\ last_connecting_time' = last_connecting_time /\ ctx' = ctx /\ ctx
    BY <1>11 DEF BeginInactive, LinkInv
  <2>2. now' = now /\ wake' \in Nat /\ pc' = "select"
    BY <1>0, <2>1, Turn
  <2> QED
    BY <1>0, <2>1, <2>2
<1>12. CASE Begin
  BY <1>12 DEF Begin
<1>13. CASE ReadOk \/ ReadTimeout \/ ReadRemoveStep
  <2>1. Reading /\ Answered
    BY <1>13, PollGoesOn
  <2>2. now' \in Nat /\ now <= now' /\ now' <= MaxTime
    BY <2>1, TimePasses
  <2>3. /\ pc = "reading" /\ pc' = "reading"
        /\ UNCHANGED <<wake, ctx, last_connecting_time>>
    BY <1>13, PollGoesOn
  <2>4. now' \in Start .. MaxTime
    BY <1>0, <2>2
  <2>5. last_connecting_time' <= now' + Reconnect
    BY <1>0, <2>2, <2>3, Later
  <2> QED
    BY <1>0, <2>3, <2>4, <2>5
<1>14. CASE ReadSocketFail
  <2>1. now' \in Nat /\ now <= now' /\ now' <= MaxTime
    BY <1>14, TimePasses DEF ReadSocketFail
  <2>2. PICK t \in Nat : t = now'
    BY <2>1
  <2>3. /\ BackToSelect(devices, FALSE, last_connecting_time', current, t)
        /\ last_connecting_time' = t + Reconnect /\ ~ctx'
    BY <1>14, <2>2 DEF ReadSocketFail, Disconnecting
  <2>4. last_connecting_time' \in Nat
    BY <1>0, <2>3
  <2>5. /\ wake' \in Nat /\ pc' = "select"
        /\ devices # <<>> => last_connecting_time' <= wake'
        /\ devices = <<>> => t + Reconnect <= wake'
    BY <1>0, <2>3, <2>4, Turn, ZenonT(30)
  <2>6. now' \in Start .. MaxTime
    BY <1>0, <2>1
  <2>7. last_connecting_time' = now' + Reconnect /\ last_connecting_time' <= wake'
    <3> DEFINE r == last_connecting_time'
    <3>1. r = t + Reconnect /\ (devices # <<>> => r <= wake') /\ (devices = <<>> => r <= wake')
      BY <2>3, <2>5
    <3> QED
      BY <2>2, <2>3, <3>1
  <2>8. last_connecting_time' <= now' + Reconnect
    <3>1. now' \in Nat /\ Reconnect \in Nat
      BY <1>0, <2>1
    <3> QED
      BY <2>7, <3>1, NoFurther
  <2> QED
    BY <2>3, <2>4, <2>5, <2>6, <2>7, <2>8
<1>15. CASE ReadHeaderMisMatch
  <2>1. now' \in Nat /\ now <= now' /\ now' <= MaxTime
    BY <1>15, TimePasses DEF ReadHeaderMisMatch
  <2> QED
    BY <1>0, <1>15, <2>1 DEF ReadHeaderMisMatch, Reading, Disconnecting
<1>16. CASE Recover
  BY <1>0, <1>16 DEF Recover, StartConnecting
<1>17. CASE Finish
  <2>1. PICK t \in Nat : /\ now <= t
                         /\ BackToSelect(devices', ctx, last_connecting_time, current, t)
    BY <1>17, FinishTurn
  <2>2. last_connecting_time' = last_connecting_time /\ ctx' = ctx /\ ctx
    BY <1>17 DEF Finish, LinkInv
  <2>3. devices' \in Seq(DeviceUnit)
    BY DeviceStep DEF DeviceInv
  <2>4. now' = t /\ t <= MaxTime /\ wake' \in Nat /\ pc' = "select"
    BY <1>0, <2>1, <2>3, Turn, ZenonT(30)
  <2>5. t \in Start .. MaxTime /\ last_connecting_time <= t + Reconnect
    BY <1>0, <2>1, <2>4
  <2> QED
    BY <1>0, <2>2, <2>4, <2>5
<1> QED
  BY <1>1, <1>2, <1>3, <1>4, <1>5, <1>6, <1>7, <1>8, <1>9, <1>10, <1>11, <1>12, <1>13,
     <1>14, <1>15, <1>16, <1>17 DEF Next

LEMMA DueStep ==
  ASSUME IndInv, Next
  PROVE  DueInv'
<1> USE DEF IndInv, DueInv, linkVars, busVars
<1>0. /\ now \in Nat /\ last_connecting_time \in Nat /\ Reconnect \in Nat
      /\ ConnectTime \in Nat /\ Cooldown \in Nat
      /\ devices \in Seq(DeviceUnit) /\ ctx \in BOOLEAN
      /\ devices # <<>> => devices[current].next_read_at \in Nat
  <2>1. devices # <<>> => devices[current] \in DeviceUnit
    BY DEF DeviceInv, Oldest
  <2>2. devices # <<>> => devices[current].next_read_at \in Nat
    BY <2>1 DEF DeviceUnit
  <2> QED
    BY <2>2, Constants DEF DeviceInv, LinkInv, TimeInv
<1>1. CASE \E c \in Configs : ChangeConfig(c)
  BY <1>1 DEF ChangeConfig, Awake
<1>2. CASE DeleteNode
  BY <1>2 DEF DeleteNode, Awake
<1>3. CASE ReceiveUpdate
  BY <1>3 DEF ReceiveUpdate, StartConnecting, Awake
<1>4. CASE ReceiveDelete
  BY <1>4 DEF ReceiveDelete, Awake
<1>5. CASE Wake
  <2>1. now' \in Nat /\ now <= now' /\ wake <= now' /\ wake \in Nat
    BY <1>0, <1>5 DEF Wake, AtLeast, TimeInv
  <2>2. pc = "select" /\ pc' # "select" /\ devices' = devices /\ current' = current
    BY <1>5 DEF Wake
  <2>3. pc = "select" => ctx \/ Awake
    BY DEF Awake
  <2> QED
    BY <1>0, <2>1, <2>2, <2>3
<1>6. CASE \E n \in 0 .. Len(config.devices) :
             \E answered \in [1 .. n -> DOMAIN config.devices] : FetchDevices(answered)
  <2>1. PICK n \in 0 .. Len(config.devices) :
               \E answered \in [1 .. n -> DOMAIN config.devices] : FetchDevices(answered)
    BY <1>6
  <2>2. PICK answered \in [1 .. n -> DOMAIN config.devices] : FetchDevices(answered)
    BY <2>1
  <2>3. devices' \in Seq(DeviceUnit) /\ Len(devices') = n
    BY <1>0, <2>2, Fetched DEF DeviceInv
  <2>4. PICK t \in Nat : /\ FetchEnds(t)
                         /\ \A i \in 1 .. n :
                              /\ devices'[i].next_read_at \in Nat
                              /\ devices'[i].next_read_at <= t
    BY <1>0, <2>2, Fetched DEF DeviceInv
  <2>5. devices' # <<>> => current' \in 1 .. n
    <3>1. devices' # <<>> => current' \in DOMAIN devices'
      BY DeviceStep DEF DeviceInv, Oldest
    <3> QED
      BY <2>3, <3>1
  <2>6. devices' # <<>> =>
          devices'[current'].next_read_at \in Nat /\ devices'[current'].next_read_at <= t
    BY <2>4, <2>5
  <2>7. now' = t /\ (pc' = "select" => t <= wake' /\ wake' \in Nat)
    <3>1. CASE \E index : BackToSelect(devices', ctx, last_connecting_time, index, t)
      BY <1>0, <2>3, <3>1, Turn
    <3>2. CASE pc' # "select" /\ now' = t
      BY <3>2
    <3> QED
      BY <2>4, <3>1, <3>2 DEF FetchEnds
  <2> QED
    BY <1>0, <2>6, <2>7
<1>7. CASE TickConnected
  BY <1>7 DEF TickConnected, Awake
<1>8. CASE TickConnect
  BY <1>8 DEF TickConnect, StartConnecting, Awake
<1>9. CASE \E t \in now .. now + ConnectTime : ConnectOk(t)
  <2>1. PICK t \in now .. now + ConnectTime : ConnectOk(t)
    BY <1>9
  <2>2. t \in Nat /\ now <= t /\ devices' = devices /\ ctx' /\ goal' = goal /\ pc = "connect"
    BY <1>0, <2>1 DEF ConnectOk, ConnectEnds
  <2>3. CASE goal = "update" /\ pc' = "devices"
    BY <2>2, <2>3 DEF Awake
  <2>4. CASE goal = "tick" /\ now' = t /\ current' = current /\ pc' = "begin"
    BY <1>0, <2>2, <2>4 DEF Awake
  <2>5. CASE BackToSelect(devices, TRUE, last_connecting_time', current, t)
    <3>1. last_connecting_time' \in Nat
      BY <1>0, <2>1 DEF ConnectOk
    <3>2. /\ pc' = "select"
          /\ devices # <<>> /\ devices[current'].active => devices[current'].next_read_at <= wake'
      BY <1>0, <2>2, <2>5, <3>1, Turn, ZenonT(30)
    <3> QED
      BY <2>2, <3>2 DEF Awake
  <2> QED
    BY <2>1, <2>3, <2>4, <2>5 DEF ConnectOk, ConnectEnds
<1>10. CASE \E t \in now .. now + ConnectTime : ConnectFails(t)
  <2>1. PICK t \in now .. now + ConnectTime : ConnectFails(t)
    BY <1>10
  <2>2. t \in Nat /\ now <= t /\ devices' = devices /\ ~ctx' /\ goal' = goal /\ pc = "connect"
    BY <1>0, <2>1 DEF ConnectFails, ConnectEnds, Disconnecting
  <2>3. CASE goal = "update" /\ pc' = "devices"
    BY <2>2, <2>3 DEF Awake
  <2>4. CASE goal # "update" /\ BackToSelect(devices, FALSE, last_connecting_time', current, t)
    <3>1. now' = t /\ current' = current /\ pc' = "select"
      BY <2>4 DEF BackToSelect
    <3> QED
      BY <1>0, <2>2, <2>4, <3>1 DEF Awake
  <2> QED
    BY <2>1, <2>3, <2>4 DEF ConnectFails, ConnectEnds
<1>11. CASE BeginInactive
  <2>1. /\ BackToSelect(devices, ctx, last_connecting_time, current, now)
        /\ devices' = devices /\ ctx' = ctx /\ ctx
    BY <1>11 DEF BeginInactive, LinkInv
  <2>2. /\ pc' = "select"
        /\ devices # <<>> /\ devices[current'].active => devices[current'].next_read_at <= wake'
    BY <1>0, <2>1, Turn
  <2> QED
    BY <2>1, <2>2 DEF Awake
<1>12. CASE Begin
  BY <1>12 DEF Begin, Awake
<1>13. CASE ReadOk \/ ReadTimeout \/ ReadRemoveStep
  <2>1. Reading /\ Answered
    BY <1>13, PollGoesOn
  <2>2. now' \in Nat /\ now <= now'
    BY <2>1, TimePasses
  <2>3. /\ pc = "reading" /\ UNCHANGED <<pc, goal, ctx, current>>
    BY <1>13, PollGoesOn
  <2>4. SameOrder(devices', devices)
    BY <1>13, PollGoesOn
  <2>5. current \in DOMAIN devices /\ devices # <<>>
    BY <2>3, PolledUnit
  <2>6. /\ devices'[current].active <=> devices[current].active
        /\ devices'[current].next_read_at = devices[current].next_read_at
    BY <2>4, <2>5 DEF SameOrder
  <2> QED
    BY <1>0, <2>2, <2>3, <2>5, <2>6 DEF Awake
<1>14. CASE ReadSocketFail
  <2>1. now' \in Nat /\ now <= now'
    BY <1>14, TimePasses DEF ReadSocketFail
  <2>2. pc = "reading" /\ pc' = "select" /\ ~ctx' /\ UNCHANGED <<devices, current>>
    BY <1>14 DEF ReadSocketFail, Disconnecting, BackToSelect, Reading
  <2> QED
    BY <1>0, <2>1, <2>2 DEF Awake
<1>15. CASE ReadHeaderMisMatch
  <2>0. now' \in Nat /\ now <= now'
    BY <1>15, TimePasses DEF ReadHeaderMisMatch
  <2>1. Blamed \in Nat
    BY DEF Blamed, DeviceInv
  <2>2. CASE devices' = devices
    BY <1>0, <1>15, <2>0, <2>2 DEF ReadHeaderMisMatch, Reading, Awake
  <2>3. CASE Blamed \in DOMAIN devices
    <3>1. TimeoutStep \in Nat
      BY Constants
    <3>2. SameOrder(devices', devices)
      BY <1>0, <1>15, <2>3, <3>1, LongerTimeout DEF ReadHeaderMisMatch
    <3>3. current \in DOMAIN devices /\ devices # <<>>
      BY <1>15 DEF ReadHeaderMisMatch, Reading, DeviceInv, Oldest
    <3>4. /\ devices'[current].active <=> devices[current].active
          /\ devices'[current].next_read_at = devices[current].next_read_at
      BY <3>2, <3>3 DEF SameOrder
    <3> QED
      BY <1>0, <1>15, <2>0, <3>3, <3>4 DEF ReadHeaderMisMatch, Reading, Awake
  <2> QED
    BY <1>0, <1>15, <2>1, <2>2, <2>3 DEF ReadHeaderMisMatch
<1>16. CASE Recover
  <2>1. now' \in Nat /\ now <= now'
    BY <1>0, <1>16 DEF Recover
  <2>2. pc = "cooldown" /\ UNCHANGED <<devices, current>>
    BY <1>16 DEF Recover
  <2>3. pc' = "connect" /\ goal' = "recover"
    BY <1>16 DEF Recover, StartConnecting
  <2> QED
    BY <1>0, <2>1, <2>2, <2>3 DEF Awake
<1>17. CASE Finish
  <2>1. PICK t \in Nat : BackToSelect(devices', ctx, last_connecting_time, current, t)
    BY <1>17, FinishTurn
  <2>2. ctx' = ctx /\ ctx
    BY <1>17 DEF Finish, LinkInv
  <2>3. devices' \in Seq(DeviceUnit)
    BY DeviceStep DEF DeviceInv
  <2>4. PICK devs \in Seq(DeviceUnit) : devs = devices'
    BY <2>3
  <2>5. BackToSelect(devs, TRUE, last_connecting_time, current, t)
    <3>1. ctx = TRUE
      BY <1>0, <2>2
    <3> QED
      BY <2>1, <2>4, <3>1
  <2>6. /\ pc' = "select"
        /\ devs # <<>> /\ devs[current'].active => devs[current'].next_read_at <= wake'
    BY <1>0, <2>5, Turn
  <2> QED
    BY <2>2, <2>4, <2>6 DEF Awake
<1> QED
  BY <1>1, <1>2, <1>3, <1>4, <1>5, <1>6, <1>7, <1>8, <1>9, <1>10, <1>11, <1>12, <1>13,
     <1>14, <1>15, <1>16, <1>17 DEF Next

LEMMA Initially ==
  ASSUME Init
  PROVE  IndInv
<1>1. Start \in Start .. MaxTime /\ Start \in Nat /\ Reconnect \in Nat
  BY Constants
<1>2. LinkInv
  BY DEF Init, LinkInv
<1>3. DeviceInv
  BY DEF Init, DeviceInv
<1>4. PollInv
  BY DEF Init, PollInv
<1>5. TimeInv
  BY <1>1 DEF Init, TimeInv
<1>6. DueInv
  BY DEF Init, DueInv
<1> QED
  BY <1>2, <1>3, <1>4, <1>5, <1>6 DEF IndInv

LEMMA Stutter ==
  ASSUME IndInv, UNCHANGED vars
  PROVE  IndInv'
<1> USE DEF vars, linkVars, busVars
<1>1. LinkInv' /\ PollInv' /\ TimeInv'
  BY DEF IndInv, LinkInv, PollInv, TimeInv, Polled
<1>2. DeviceInv' /\ DueInv'
  BY DEF IndInv, DeviceInv, DueInv, Awake, Oldest
<1> QED
  BY <1>1, <1>2 DEF IndInv

-----------------------------------------------------------------------------
(* The theorems.                                                             *)

\* The conjuncts above hold whatever the configuration, the gateway and the clock do.
THEOREM IndInvariant == Spec => []IndInv
<1>1. Init => IndInv
  BY Initially
<1>2. IndInv /\ [Next]_vars => IndInv'
  <2>1. ASSUME IndInv, Next
        PROVE  IndInv'
    BY <2>1, LinkStep, DeviceStep, PollStep, TimeStep, DueStep DEF IndInv
  <2> QED
    BY <2>1, Stutter
<1> QED
  BY <1>1, <1>2, PTL DEF Spec

\* TypeOK: in particular a device is polled only over an open connection, current_devise
\* is a device of the list, and no poll fails more steps than the pool has.
THEOREM TypeCorrect == Spec => []TypeOK
<1>1. IndInv => TypeOK
  <2> SUFFICES ASSUME IndInv
               PROVE  TypeOK
    OBVIOUS
  <2>1. /\ poll.step \in 0 .. Steps + 1 /\ poll.failed \in 0 .. Steps
        /\ poll.try \in 0 .. RetryCount - 1
    <3>1. Steps \in Nat \ {0} /\ RetryCount \in Nat \ {0}
      BY Constants
    <3>2. CASE poll \in Pool
      BY <3>1, <3>2 DEF Pool
    <3>3. CASE poll = NoPoll
      BY <3>1, <3>3 DEF NoPoll
    <3> QED
      BY <3>2, <3>3 DEF IndInv, PollInv
  <2>2. pc \in {"begin", "reading"} => ctx /\ current \in 1 .. Len(devices)
    BY DEF IndInv, LinkInv, DeviceInv, Oldest
  <2> QED
    BY <2>1, <2>2 DEF IndInv, LinkInv, DeviceInv, TimeInv, TypeOK
<1> QED
  BY <1>1, IndInvariant, PTL

\* NotPolledEarly: tick polls only an active device whose next_read_at is past, also when
\* a reload, a reconnection or an aborted poll came after when_next chose it.
THEOREM NeverPolledEarly == Spec => NotPolledEarly
<1>1. IndInv /\ [Next]_vars => [BeginsPoll => Polled.active /\ Polled.next_read_at <= now]_vars
  <2> SUFFICES ASSUME IndInv, Next, BeginsPoll
               PROVE  Polled.active /\ Polled.next_read_at <= now
    OBVIOUS
  <2>1. Polled.active
    <3>1. pc = "begin" /\ pc' = "reading"
      BY DEF BeginsPoll
    <3>2. CASE Begin
      BY <3>2 DEF Begin
    <3>3. CASE TickConnected \/ TickConnect \/ BeginInactive
      BY <3>1, <3>3 DEF TickConnected, TickConnect, BeginInactive, BackToSelect
    <3> QED
      BY <3>1, <3>2, <3>3
         DEF Next, ChangeConfig, DeleteNode, ReceiveUpdate, ReceiveDelete, Wake, FetchDevices,
             ConnectOk, ConnectFails, ReadOk, ReadTimeout, ReadRemoveStep, ReadSocketFail,
             ReadHeaderMisMatch, Reading, Recover, Finish
  <2>2. devices # <<>> /\ Awake
    BY DEF IndInv, DeviceInv, Awake, BeginsPoll
  <2> QED
    BY <2>1, <2>2 DEF IndInv, DueInv, Polled
<1> QED
  BY <1>1, IndInvariant, PTL DEF Spec, NotPolledEarly

\* ReconnectPaced: a tick that connects slept until last_connecting_time, also when the
\* node had no devices (it sleeps 60 s then) or was interrupted by updates.
THEOREM PacedReconnects == Spec => ReconnectPaced
<1>1. IndInv /\ [Next]_vars => [pc = "tick" /\ pc' = "connect" => now >= last_connecting_time]_vars
  <2> SUFFICES ASSUME IndInv, Next, pc = "tick", pc' = "connect"
               PROVE  now >= last_connecting_time
    OBVIOUS
  <2>1. ~ctx
    BY DEF Next, ChangeConfig, DeleteNode, ReceiveUpdate, ReceiveDelete, Wake, FetchDevices,
           TickConnected, TickConnect, ConnectOk, ConnectFails, BeginInactive, Begin, ReadOk,
           ReadTimeout, ReadRemoveStep, ReadSocketFail, ReadHeaderMisMatch, Reading, Recover,
           Finish
  <2>2. now \in Nat /\ last_connecting_time \in Nat
    BY Constants DEF IndInv, TimeInv
  <2> QED
    BY <2>1, <2>2 DEF IndInv, TimeInv
<1> QED
  BY <1>1, IndInvariant, PTL DEF Spec, ReconnectPaced

\* ShownStateIsTrue: between turns the last NodeEvent says whether ctx is a connection.
THEOREM ShownState == Spec => []ShownStateIsTrue
<1>1. IndInv => ShownStateIsTrue
  BY DEF IndInv, LinkInv, ShownStateIsTrue
<1> QED
  BY <1>1, IndInvariant, PTL

-----------------------------------------------------------------------------
(* The list of devices.                                                      *)

SameDevices(devs, old) ==
  /\ Len(devs) = Len(old)
  /\ \A i \in DOMAIN old : devs[i].id = old[i].id /\ devs[i].active = old[i].active

\* Only create_devices changes which devices there are.
LEMMA OnlyFetched ==
  ASSUME IndInv, Next, pc # "devices"
  PROVE  SameDevices(devices', devices)
<1>0. devices \in Seq(DeviceUnit) /\ (devices # <<>> => current \in DOMAIN devices)
  BY DEF IndInv, DeviceInv, Oldest
<1>1. CASE devices' = devices
  BY <1>1 DEF SameDevices
<1>2. CASE ReadRemoveStep
  <2>1. poll.step \in 1 .. Steps /\ current \in DOMAIN devices
    BY <1>2, ReadingStep, PolledUnit DEF ReadRemoveStep, Reading
  <2> QED
    BY <1>0, <1>2, <2>1, StepBroken DEF ReadRemoveStep, SameOrder, SameDevices
<1>3. CASE ReadHeaderMisMatch /\ devices' # devices
  <2>1. Blamed \in Nat /\ TimeoutStep \in Nat
    BY Constants DEF Blamed, IndInv, DeviceInv
  <2>2. ~ (Blamed > Len(devices)) /\ Blamed # 0
    BY <1>3 DEF ReadHeaderMisMatch
  <2>3. Blamed \in DOMAIN devices
    BY <1>0, <2>1, <2>2
  <2>4. SameOrder(devices', devices)
    BY <1>0, <1>3, <2>1, <2>3, LongerTimeout DEF ReadHeaderMisMatch
  <2> QED
    BY <2>4 DEF SameOrder, SameDevices
<1>4. CASE Finish
  <2>1. current \in DOMAIN devices
    BY <1>0, <1>4 DEF Finish, IndInv, DeviceInv
  <2>2. devices' = [devices EXCEPT ![current].next_read_at = now + Polled.time_for_recall]
    BY <1>4 DEF Finish
  <2>3. devices' = [devices EXCEPT ![current] =
                      [devices[current] EXCEPT !.next_read_at = now + Polled.time_for_recall]]
    BY <2>2
  <2> DEFINE unit == [devices[current] EXCEPT !.next_read_at = now + Polled.time_for_recall]
  <2>4. unit.id = devices[current].id /\ unit.active = devices[current].active
    <3>1. devices[current] \in DeviceUnit
      BY <1>0, <2>1
    <3> QED
      BY <3>1 DEF DeviceUnit
  <2> HIDE DEF unit
  <2>5. devices' = [devices EXCEPT ![current] = unit]
    BY <2>3 DEF unit
  <2> QED
    BY <1>0, <2>1, <2>4, <2>5 DEF SameDevices
<1>5. ASSUME NEW c \in Configs, ChangeConfig(c) PROVE devices' = devices
  BY <1>5 DEF ChangeConfig
<1>6. CASE DeleteNode \/ ReceiveUpdate \/ ReceiveDelete \/ Wake
  BY <1>1, <1>6 DEF DeleteNode, ReceiveUpdate, ReceiveDelete, Wake
<1>7. ASSUME NEW n \in 0 .. Len(config.devices),
             NEW answered \in [1 .. n -> DOMAIN config.devices], FetchDevices(answered)
      PROVE  FALSE
  BY <1>7 DEF FetchDevices
<1>8. CASE TickConnected \/ TickConnect
  BY <1>1, <1>8 DEF TickConnected, TickConnect
<1>9. ASSUME NEW t \in now .. now + ConnectTime, ConnectOk(t) \/ ConnectFails(t)
      PROVE  devices' = devices
  BY <1>9 DEF ConnectOk, ConnectFails, ConnectEnds
<1>10. CASE BeginInactive \/ Begin \/ ReadOk \/ ReadTimeout \/ ReadSocketFail \/ Recover
  BY <1>1, <1>10 DEF BeginInactive, Begin, ReadOk, ReadTimeout, ReadSocketFail, Recover
<1> QED
  BY <1>1, <1>2, <1>3, <1>4, <1>5, <1>6, <1>7, <1>8, <1>9, <1>10 DEF Next

\* MostLaggingFirst, for every order of active devices and devices that are switched off.
THEOREM TheOldestFirst == Spec => []MostLaggingFirst
<1>1. IndInv => MostLaggingFirst
  <2> SUFFICES ASSUME IndInv, pc = "begin"
               PROVE  /\ Polled.active \/ current = 1
                      /\ \A i \in Active : Polled.next_read_at <= devices[i].next_read_at
    BY DEF MostLaggingFirst
  <2>1. Oldest(devices, current)
    BY DEF IndInv, DeviceInv
  <2> QED
    BY <2>1 DEF Active, Oldest, Polled
<1> QED
  BY <1>1, IndInvariant, PTL

-----------------------------------------------------------------------------
(* The lag.                                                                  *)

Cost == Steps * RetryCount * Timeout
Round == Cost + Pause + MinSleep

\* What passes before the first poll.
Settled == FetchTime + ConnectTime

\* The active devices late by more than j rounds at time t.
Behind(devs, t, j) ==
  {i \in DOMAIN devs : devs[i].active /\ t > devs[i].next_read_at + Settled + j * Round}

\* No two devices share a round: each turn takes the oldest out of those that are late.
InTime(devs, t) ==
  \A j \in 0 .. Len(devs) : Cardinality(Behind(devs, t, j)) + j <= Len(devs)

\* What a poll that has come as far as p may have taken.
Spent(p) == ((p.step - 1) * RetryCount + p.try) * Timeout

\* A sleep ends, and a turn begins, with the devices in time; a poll began with them in
\* time.  While the first connection is yet to be made they are late by one sleep.
OnLine ==
  /\ pc = "select" => InTime(devices, wake)
  /\ pc \in {"tick", "begin"} => InTime(devices, now)
  /\ pc = "reading" =>
       /\ Polled.active
       /\ poll.step = Polled.steps + 1 => poll.try = 0
       /\ \E t \in Start .. now : InTime(devices, t) /\ now <= t + Spent(poll)

OffLine ==
  /\ pc = "select" =>
       \A i \in DOMAIN devices : wake <= devices[i].next_read_at + FetchTime + MinSleep
  /\ pc = "tick" \/ (pc = "connect" /\ goal = "tick") =>
       \A i \in DOMAIN devices : now <= devices[i].next_read_at + FetchTime + MinSleep

FirstActive == devices # <<>> /\ devices[1].active

LagInv ==
  /\ pc = "select" => now <= wake
  /\ last_connecting_time = 0 /\ FirstActive =>
       /\ pc # "cooldown" /\ ~(pc = "connect" /\ goal = "recover")
       /\ \A i \in DOMAIN devices : devices[i].timeout <= Timeout
       /\ IF ctx THEN OnLine ELSE OffLine

\* Only create_devices brings an active device to the front.
LEMMA FirstStays ==
  ASSUME IndInv, Next, pc # "devices", FirstActive'
  PROVE  FirstActive
<1>1. SameDevices(devices', devices)
  BY OnlyFetched
<1>2. devices \in Seq(DeviceUnit) /\ devices' \in Seq(DeviceUnit)
  BY DeviceStep DEF IndInv, DeviceInv
<1>3. devices' # <<>> /\ devices'[1].active
  BY DEF FirstActive
<1>4. Len(devices') = Len(devices) /\ Len(devices') # 0
  BY <1>1, <1>2, <1>3 DEF SameDevices
<1>5. 1 \in DOMAIN devices /\ devices # <<>>
  BY <1>2, <1>4
<1> QED
  BY <1>1, <1>3, <1>5 DEF SameDevices, FirstActive

LEMMA Rounds ==
  /\ Cost \in Nat /\ Round \in Nat /\ MinSleep \in Nat /\ Pause \in Nat /\ Settled \in Nat
  /\ FetchTime \in Nat /\ ConnectTime \in Nat
  /\ Round = Cost + Pause + MinSleep /\ Settled = FetchTime + ConnectTime
<1>1. /\ Steps \in Nat /\ RetryCount \in Nat /\ Timeout \in Nat
      /\ MinSleep \in Nat /\ Pause \in Nat /\ FetchTime \in Nat /\ ConnectTime \in Nat
  BY Constants
<1> QED
  BY <1>1 DEF Cost, Round, Settled

LEMMA Multiples ==
  ASSUME NEW a \in Nat, NEW b \in Nat, a - 1 \in Nat
  PROVE  (a - 1) * b \in Nat /\ a * b = (a - 1) * b + b
OBVIOUS

LEMMA NotYetLate ==
  ASSUME NEW a \in Nat, NEW c \in Nat, NEW r \in Nat, NEW round \in Nat, NEW t \in Nat,
         t <= a + round
  PROVE  ~(t > a + c + (r + round))
OBVIOUS

LEMMA LateBefore ==
  ASSUME NEW a \in Nat, NEW c \in Nat, NEW r \in Nat, NEW round \in Nat, NEW t \in Nat,
         NEW t2 \in Nat, t2 > a + c + (r + round), t2 <= t + round
  PROVE  t > a + c + r
OBVIOUS

LEMMA LaterStill ==
  ASSUME NEW a \in Nat, NEW b \in Nat, NEW c \in Nat, NEW r \in Nat, NEW t \in Nat,
         a <= b, t > b + c + r
  PROVE  t > a + c + r
OBVIOUS

LEMMA BehindFinite ==
  ASSUME NEW devs \in Seq(DeviceUnit), NEW t, NEW j
  PROVE  /\ IsFiniteSet(Behind(devs, t, j))
         /\ Cardinality(Behind(devs, t, j)) \in Nat
         /\ Cardinality(Behind(devs, t, j)) <= Len(devs)
<1>1. IsFiniteSet(1 .. Len(devs)) /\ Cardinality(1 .. Len(devs)) = Len(devs)
  <2> DEFINE n == Len(devs)
  <2>1. n \in Nat /\ 1 \in Int /\ n \in Int
    OBVIOUS
  <2> HIDE DEF n
  <2>2. IsFiniteSet(1 .. n) /\ Cardinality(1 .. n) = IF 1 > n THEN 0 ELSE n - 1 + 1
    BY <2>1, FS_Interval
  <2>3. Cardinality(1 .. n) = n
    BY <2>1, <2>2
  <2> QED
    BY <2>2, <2>3 DEF n
<1>2. Behind(devs, t, j) \subseteq 1 .. Len(devs)
  BY DEF Behind
<1> QED
  BY <1>1, <1>2, FS_Subset, FS_CardinalityType

\* Nobody is late by more than the first round.
LEMMA Fresh ==
  ASSUME NEW devs \in Seq(DeviceUnit), NEW t \in Nat,
         \A i \in DOMAIN devs :
           devs[i].active => t <= devs[i].next_read_at + Settled + Round
  PROVE  InTime(devs, t)
<1> SUFFICES ASSUME NEW j \in 0 .. Len(devs)
             PROVE  Cardinality(Behind(devs, t, j)) + j <= Len(devs)
  BY DEF InTime
<1>1. CASE j = 0
  BY <1>1, BehindFinite
<1>2. CASE j # 0
  <2>1. \A i \in DOMAIN devs : devs[i].next_read_at \in Nat
    <3>1. \A i \in DOMAIN devs : devs[i] \in DeviceUnit
      OBVIOUS
    <3> QED
      BY <3>1 DEF DeviceUnit
  <2>2. \A i \in DOMAIN devs :
          ~(devs[i].active /\ t > devs[i].next_read_at + Settled + j * Round)
    <3> SUFFICES ASSUME NEW i \in DOMAIN devs, devs[i].active
                 PROVE  t <= devs[i].next_read_at + Settled + j * Round
      <4>1. j * Round \in Nat /\ Settled \in Nat
        BY Rounds
      <4> HIDE DEF Round
      <4> QED
        BY <2>1, <4>1
    <3>1. j \in Nat /\ Round \in Nat /\ 1 <= j
      BY <1>2, Rounds
    <3>2. Round <= j * Round /\ j * Round \in Nat
      BY <3>1
    <3>3. /\ devs[i].next_read_at \in Nat /\ Settled \in Nat
          /\ t <= devs[i].next_read_at + Settled + Round
      BY <2>1, Rounds
    <3> DEFINE r == j * Round
    <3>4. r \in Nat /\ Round <= r
      BY <3>2
    <3> HIDE DEF r
    <3>5. t <= devs[i].next_read_at + Settled + r
      BY <3>1, <3>3, <3>4
    <3> QED
      BY <3>5 DEF r
  <2>3. Behind(devs, t, j) = {}
    BY <2>2 DEF Behind
  <2> QED
    BY <2>3, FS_EmptySet
<1> QED
  BY <1>1, <1>2

LEMMA SameOrderInTime ==
  ASSUME NEW old \in Seq(DeviceUnit), NEW devs \in Seq(DeviceUnit), SameOrder(devs, old),
         NEW t, InTime(old, t)
  PROVE  InTime(devs, t)
<1>1. DOMAIN devs = DOMAIN old /\ Len(devs) = Len(old)
  BY DEF SameOrder
<1>2. \A j : Behind(devs, t, j) = Behind(old, t, j)
  BY <1>1 DEF SameOrder, Behind
<1> QED
  BY <1>1, <1>2 DEF InTime

\* A turn that polls the oldest device keeps the others in time: they are one round
\* later, and one is fewer.
LEMMA TurnInTime ==
  ASSUME NEW devs \in Seq(DeviceUnit), NEW k \in DOMAIN devs, NEW new \in Seq(DeviceUnit),
         NEW t \in Nat, NEW t2 \in Nat,
         InTime(devs, t), t2 <= t + Round,
         Oldest(devs, k), devs[k].active,
         Len(new) = Len(devs),
         t2 <= new[k].next_read_at + Round,
         \A i \in DOMAIN devs : i # k =>
           new[i].active = devs[i].active /\ new[i].next_read_at = devs[i].next_read_at
  PROVE  InTime(new, t2)
<1> SUFFICES ASSUME NEW j \in 0 .. Len(new)
             PROVE  Cardinality(Behind(new, t2, j)) + j <= Len(new)
  BY DEF InTime
<1>0. /\ DOMAIN new = DOMAIN devs
      /\ \A i \in DOMAIN devs : devs[i].next_read_at \in Nat /\ new[i].next_read_at \in Nat
  <2>1. DOMAIN new = DOMAIN devs
    OBVIOUS
  <2>2. \A i \in DOMAIN devs : devs[i] \in DeviceUnit /\ new[i] \in DeviceUnit
    BY <2>1
  <2> QED
    BY <2>1, <2>2 DEF DeviceUnit
<1>1. CASE j = 0
  BY <1>1, BehindFinite
<1>2. CASE j # 0
  <2> DEFINE before == Behind(devs, t, j - 1)
             after == Behind(new, t2, j)
  <2>1. j \in Nat /\ j - 1 \in 0 .. Len(devs) /\ Len(devs) \in Nat
    BY <1>2
  <2>2. Cardinality(before) + (j - 1) <= Len(devs)
    BY <2>1 DEF InTime
  <2>3. /\ Round \in Nat /\ Settled \in Nat
        /\ (j - 1) * Round \in Nat /\ j * Round = (j - 1) * Round + Round
    <3>1. /\ Round \in Nat /\ Settled \in Nat /\ j - 1 \in Nat
      BY <2>1, Rounds
    <3> QED
      BY <2>1, <3>1, Multiples
  <2>4. \A i \in after : i \in before /\ i # k
    <3> SUFFICES ASSUME NEW i \in after
                 PROVE  i \in before /\ i # k
      OBVIOUS
    <3>1. /\ i \in DOMAIN devs /\ new[i].active
          /\ t2 > new[i].next_read_at + Settled + j * Round
      BY <1>0 DEF Behind
    <3> HIDE DEF after
    <3> DEFINE r == (j - 1) * Round
    <3>2. r \in Nat /\ t2 > new[i].next_read_at + Settled + (r + Round)
      BY <2>3, <3>1
    <3> HIDE DEF r
    <3>3. i # k
      BY <1>0, <2>3, <3>2, NotYetLate
    <3>4. new[i].next_read_at = devs[i].next_read_at /\ devs[i].active
      BY <3>1, <3>3
    <3>5. t > devs[i].next_read_at + Settled + r
      BY <1>0, <2>3, <3>1, <3>2, <3>4, LateBefore
    <3> QED
      BY <3>1, <3>3, <3>4, <3>5 DEF Behind, r
  <2>5. /\ IsFiniteSet(before) /\ Cardinality(before) \in Nat
        /\ IsFiniteSet(after) /\ Cardinality(after) \in Nat
    BY BehindFinite
  <2>6. CASE before = {}
    <3>1. after = {}
      <4> HIDE DEF before, after
      <4> QED
        BY <2>4, <2>6
    <3>2. Cardinality(after) = 0
      BY <3>1, FS_EmptySet
    <3> QED
      BY <2>1, <3>2
  <2>7. CASE before # {}
    <3>1. k \in before
      <4>1. PICK i \in before : TRUE
        BY <2>7
      <4>2. /\ i \in DOMAIN devs /\ devs[i].active
            /\ t > devs[i].next_read_at + Settled + (j - 1) * Round
        BY <4>1 DEF Behind
      <4>3. devs[k].next_read_at <= devs[i].next_read_at
        BY <4>2 DEF Oldest
      <4> DEFINE r == (j - 1) * Round
      <4>4. r \in Nat /\ t > devs[i].next_read_at + Settled + r
        BY <2>3, <4>2
      <4> HIDE DEF r
      <4>5. t > devs[k].next_read_at + Settled + r
        BY <1>0, <2>3, <4>2, <4>3, <4>4, LaterStill
      <4> QED
        BY <4>5 DEF Behind, r
    <3> HIDE DEF before, after
    <3>2. IsFiniteSet(before \ {k}) /\ Cardinality(before \ {k}) = Cardinality(before) - 1
      BY <2>5, <3>1, FS_RemoveElement
    <3>3. after \subseteq before \ {k}
      BY <2>4
    <3>4. Cardinality(after) <= Cardinality(before) - 1
      BY <3>2, <3>3, FS_Subset
    <3>5. Cardinality(after) + j <= Len(devs)
      BY <2>1, <2>2, <2>5, <3>4
    <3> QED
      BY <3>5 DEF after
  <2> QED
    BY <2>6, <2>7
<1> QED
  BY <1>1, <1>2

\* What the last device is late by: LagBounded.
LEMMA LatestInTime ==
  ASSUME NEW devs \in Seq(DeviceUnit), NEW t \in Nat, InTime(devs, t),
         NEW i \in DOMAIN devs, devs[i].active
  PROVE  t <= devs[i].next_read_at + Settled + Len(devs) * Round
<1> DEFINE late0 == Behind(devs, t, Len(devs))
<1>1. Len(devs) \in Nat /\ Len(devs) \in 0 .. Len(devs)
  OBVIOUS
<1>2. Cardinality(late0) + Len(devs) <= Len(devs)
  BY <1>1 DEF InTime
<1>3. IsFiniteSet(late0) /\ Cardinality(late0) \in Nat
  BY BehindFinite
<1>4. late0 = {}
  <2> HIDE DEF late0
  <2>1. Cardinality(late0) = 0
    BY <1>1, <1>2, <1>3
  <2> QED
    BY <1>3, <2>1, FS_EmptySet
<1>5. ~(t > devs[i].next_read_at + Settled + Len(devs) * Round)
  BY <1>4 DEF Behind
<1>6. devs[i].next_read_at \in Nat
  <2>1. devs[i] \in DeviceUnit
    OBVIOUS
  <2> QED
    BY <2>1 DEF DeviceUnit
<1>7. Len(devs) * Round \in Nat /\ Settled \in Nat
  BY <1>1, Rounds
<1> QED
  BY <1>5, <1>6, <1>7

\* When the turn ends the task sleeps as little as it can, or until the oldest device is
\* due.
LEMMA TurnSleeps ==
  ASSUME NEW devs \in Seq(DeviceUnit), NEW connected \in BOOLEAN, NEW retry_at \in Nat,
         NEW index, NEW t \in Nat, Start <= t,
         BackToSelect(devs, connected, retry_at, index, t)
  PROVE  /\ t <= wake'
         /\ ~connected /\ retry_at = 0 /\ devs # <<>> => wake' = t + MinSleep
         /\ connected /\ devs # <<>> =>
              \/ wake' = t + MinSleep
              \/ /\ devs[Chosen(devs)].active /\ wake' = devs[Chosen(devs)].next_read_at
<1> DEFINE next == WhenNext(devs, connected, retry_at, t)
<1>1. MinSleep \in Nat /\ NoActive \in Nat /\ NoActive < Start /\ Start \in Nat
  BY ReadMasterAssumption
<1>2. wake' = t + AtLeast(next, MinSleep)
  BY DEF BackToSelect
<1>3. t <= wake'
  BY Turn
<1>4. ASSUME ~connected, retry_at = 0, devs # <<>>
      PROVE  wake' = t + MinSleep
  <2>1. next = 0
    BY <1>4 DEF WhenNext, SaturatingSub
  <2> HIDE DEF next
  <2> QED
    BY <1>1, <1>2, <2>1 DEF AtLeast
<1>5. ASSUME connected, devs # <<>>
      PROVE  \/ wake' = t + MinSleep
             \/ devs[Chosen(devs)].active /\ wake' = devs[Chosen(devs)].next_read_at
  <2>1. devs[Chosen(devs)] \in DeviceUnit
    BY <1>5, ChosenIsOldest DEF Oldest
  <2>2. devs[Chosen(devs)].next_read_at \in Nat
    BY <2>1 DEF DeviceUnit
  <2>3. CASE devs[Chosen(devs)].active
    <3> DEFINE due == devs[Chosen(devs)].next_read_at
    <3>1. next = SaturatingSub(due, t)
      BY <1>5, <2>3 DEF WhenNext, WhenNextDevice
    <3> HIDE DEF next, due
    <3>2. wake' = t + MinSleep \/ wake' = due
      <4>1. due \in Nat
        BY <2>2 DEF due
      <4> QED
        BY <1>1, <1>2, <3>1, <4>1 DEF AtLeast, SaturatingSub
    <3> QED
      BY <2>3, <3>2 DEF due
  <2>4. CASE ~devs[Chosen(devs)].active
    <3>1. next = SaturatingSub(NoActive, t)
      BY <1>5, <2>4 DEF WhenNext, WhenNextDevice
    <3> HIDE DEF next
    <3> QED
      BY <1>1, <1>2, <3>1 DEF AtLeast, SaturatingSub
  <2> QED
    BY <2>3, <2>4
<1> QED
  BY <1>3, <1>4, <1>5

LEMMA Unmoved ==
  ASSUME LagInv,
         UNCHANGED <<ctx, last_connecting_time, devices, current, pc, goal, poll, now, wake>>
  PROVE  LagInv'
BY DEF LagInv, FirstActive, OnLine, OffLine, Spent, Polled

\* A turn of an unbroken connection may end where the devices are in time.
LEMMA EndOfTurn ==
  ASSUME NEW devs \in Seq(DeviceUnit), NEW retry_at \in Nat, NEW index,
         NEW t \in Nat, Start <= t, devs # <<>>,
         BackToSelect(devs, TRUE, retry_at, index, t),
         InTime(devs, t + MinSleep)
  PROVE  wake' \in Nat /\ InTime(devs, wake')
<1>1. wake' \in Nat
  BY Turn
<1>2. CASE wake' = t + MinSleep
  BY <1>1, <1>2
<1>3. CASE devs[Chosen(devs)].active /\ wake' = devs[Chosen(devs)].next_read_at
  <2>1. \A i \in DOMAIN devs : devs[i].active => wake' <= devs[i].next_read_at
    BY <1>3, ChosenIsOldest DEF Oldest
  <2>2. \A i \in DOMAIN devs : devs[i].next_read_at \in Nat
    <3>1. \A i \in DOMAIN devs : devs[i] \in DeviceUnit
      OBVIOUS
    <3> QED
      BY <3>1 DEF DeviceUnit
  <2>3. Settled \in Nat /\ Round \in Nat
    BY Rounds
  <2>4. \A i \in DOMAIN devs :
          devs[i].active => wake' <= devs[i].next_read_at + Settled + Round
    BY <1>1, <2>1, <2>2, <2>3
  <2> QED
    BY <1>1, <2>4, Fresh
<1> QED
  BY <1>1, <1>2, <1>3, TurnSleeps

LEMMA Due ==
  ASSUME NEW devs \in Seq(DeviceUnit)
  PROVE  \A i \in DOMAIN devs : devs[i].next_read_at \in Nat /\ devs[i].timeout \in Nat
<1>1. \A i \in DOMAIN devs : devs[i] \in DeviceUnit
  OBVIOUS
<1> QED
  BY <1>1 DEF DeviceUnit

LEMMA LagFetch ==
  ASSUME IndInv, NEW n \in 0 .. Len(config.devices),
         NEW answered \in [1 .. n -> DOMAIN config.devices], FetchDevices(answered)
  PROVE  LagInv'
<1>0. /\ now \in Nat /\ Start \in Nat /\ Start <= now /\ wake \in Nat
      /\ last_connecting_time \in Nat /\ ctx \in BOOLEAN /\ config \in Configs
  BY Constants DEF IndInv, TimeInv, LinkInv, DeviceInv
<1>1. devices' \in Seq(DeviceUnit) /\ \A i \in DOMAIN devices' : devices'[i].timeout <= Timeout
  <2>1. /\ devices' \in Seq(DeviceUnit) /\ Len(devices') = n
        /\ \A i \in 1 .. n : devices'[i].timeout <= Timeout
    BY <1>0, Fetched
  <2>2. DOMAIN devices' = 1 .. n
    BY <2>1
  <2> QED
    BY <2>1, <2>2
<1>2. PICK t \in Nat : /\ Start <= t
                       /\ \A i \in DOMAIN devices' :
                            /\ devices'[i].next_read_at \in Nat
                            /\ t <= devices'[i].next_read_at + FetchTime
                       /\ FetchEnds(t)
  <2>1. PICK t \in Nat : /\ now <= t /\ t <= now + FetchTime
                         /\ \A i \in 1 .. n :
                              /\ devices'[i].next_read_at \in Nat
                              /\ now <= devices'[i].next_read_at
                         /\ FetchEnds(t)
    BY <1>0, Fetched
  <2>2. DOMAIN devices' = 1 .. n
    <3>1. devices' \in Seq(DeviceUnit) /\ Len(devices') = n
      BY <1>0, Fetched
    <3> QED
      BY <3>1
  <2>3. FetchTime \in Nat
    BY Rounds
  <2>4. Start <= t
    BY <1>0, <2>1
  <2>5. \A i \in DOMAIN devices' : t <= devices'[i].next_read_at + FetchTime
    BY <1>0, <2>1, <2>2, <2>3
  <2> QED
    BY <2>1, <2>2, <2>4, <2>5
<1>3. /\ pc = "devices" /\ UNCHANGED <<ctx, last_connecting_time, goal>>
  BY DEF FetchDevices, linkVars
<1>4. /\ MinSleep \in Nat /\ FetchTime \in Nat /\ Settled \in Nat /\ Round \in Nat
      /\ MinSleep <= Round /\ FetchTime <= Settled
  BY Rounds
<1>5. InTime(devices', t) /\ InTime(devices', t + MinSleep)
  <2>1. t + MinSleep \in Nat
    BY <1>4
  <2>2. \A i \in DOMAIN devices' : t <= devices'[i].next_read_at + Settled + Round
    BY <1>2, <1>4
  <2>3. \A i \in DOMAIN devices' : t + MinSleep <= devices'[i].next_read_at + Settled + Round
    BY <1>2, <1>4
  <2> QED
    BY <1>1, <2>1, <2>2, <2>3, Fresh
<1>6. CASE \E index : BackToSelect(devices', ctx, last_connecting_time, index, t)
  <2>1. PICK index : BackToSelect(devices', ctx, last_connecting_time, index, t)
    BY <1>6
  <2>2. now' = t /\ wake' \in Nat /\ now' <= wake' /\ pc' = "select"
    BY <1>0, <1>1, <2>1, Turn
  <2>3. CASE ctx
    <3>1. InTime(devices', wake')
      <4>1. CASE devices' = <<>>
        <5>1. DOMAIN devices' = {}
          BY <4>1
        <5> QED
          BY <1>1, <2>2, <5>1, Fresh
      <4>2. CASE devices' # <<>>
        <5>1. ctx = TRUE
          BY <1>0, <2>3
        <5>2. BackToSelect(devices', TRUE, last_connecting_time, index, t)
          BY <2>1, <5>1
        <5> QED
          BY <1>0, <1>1, <1>2, <1>5, <4>2, <5>2, EndOfTurn, Zenon
      <4> QED
        BY <4>1, <4>2
    <3> QED
      BY <1>1, <1>3, <2>2, <2>3, <3>1 DEF LagInv, OnLine
  <2>4. CASE ~ctx
    <3>1. last_connecting_time = 0 /\ devices' # <<>> => wake' = t + MinSleep
      BY <1>0, <1>1, <1>2, <2>1, <2>4, TurnSleeps
    <3>2. last_connecting_time = 0 =>
            \A i \in DOMAIN devices' : wake' <= devices'[i].next_read_at + FetchTime + MinSleep
      <4>1. \A i \in DOMAIN devices' : devices' # <<>>
        BY <1>1
      <4> QED
        BY <1>2, <1>4, <2>2, <3>1, <4>1
    <3> QED
      BY <1>1, <1>3, <2>2, <2>4, <3>2 DEF LagInv, OffLine
  <2> QED
    BY <1>0, <2>3, <2>4
<1>7. CASE pc' = "panicked"
  BY <1>1, <1>3, <1>7 DEF LagInv, OnLine, OffLine
<1>8. CASE pc' = "tick" /\ now' = t
  <2>1. \A i \in DOMAIN devices' : t <= devices'[i].next_read_at + FetchTime + MinSleep
    BY <1>2, <1>4
  <2> QED
    BY <1>1, <1>3, <1>5, <1>8, <2>1 DEF LagInv, OnLine, OffLine
<1> QED
  BY <1>2, <1>6, <1>7, <1>8 DEF FetchEnds

LEMMA Monotone ==
  ASSUME NEW a \in Nat, NEW b \in Nat, NEW c \in Nat, a <= b
  PROVE  a * c <= b * c
<1>1. PICK d \in Nat : b = a + d
  <2>1. b - a \in Nat /\ b = a + (b - a)
    OBVIOUS
  <2> QED
    BY <2>1
<1>2. d * c \in Nat /\ a * c \in Nat /\ b * c = a * c + d * c
  BY <1>1
<1> QED
  BY <1>2

\* A poll that goes on has spent at least what its steps cost so far.
LEMMA SpentGrows ==
  ASSUME poll \in Pool, NEW device \in DeviceUnit, NEW failed \in 0 .. poll.step,
         poll.step <= device.steps, poll' = PollFrom(poll.step + 1, failed, device)
  PROVE  /\ Spent(poll) \in Nat /\ Spent(poll') \in Nat /\ Timeout \in Nat
         /\ Spent(poll) + Timeout <= Spent(poll')
         /\ poll'.try = 0
<1>0. /\ Steps \in Nat \ {0} /\ RetryCount \in Nat \ {0} /\ Timeout \in Nat
  BY Constants
<1>1. /\ poll.step \in Nat /\ 1 <= poll.step /\ poll.try \in 0 .. RetryCount - 1
      /\ device.steps \in Nat
  BY <1>0 DEF Pool, DeviceUnit
<1>2. poll'.step \in Nat /\ poll.step + 1 <= poll'.step /\ poll'.try = 0
  <2>1. poll.step + 1 \in 1 .. device.steps + 1 /\ failed \in 0 .. (poll.step + 1) - 1
    BY <1>0, <1>1
  <2>2. poll'.step \in poll.step + 1 .. device.steps + 1 /\ poll'.try = 0
    BY <2>1, PollFromType
  <2> QED
    BY <1>0, <1>1, <2>2
<1> DEFINE a == poll.step - 1
           b == poll'.step - 1
           tries == a * RetryCount + poll.try
<1>3. a \in Nat /\ b \in Nat /\ a + 1 <= b
  BY <1>1, <1>2
<1>4. Spent(poll) = tries * Timeout /\ Spent(poll') = (b * RetryCount) * Timeout
  <2>1. Spent(poll') = (b * RetryCount + 0) * Timeout
    BY <1>2 DEF Spent
  <2>2. b * RetryCount \in Nat
    <3> HIDE DEF b
    <3> QED
      BY <1>0, <1>3
  <2> QED
    BY <2>1, <2>2 DEF Spent
<1> HIDE DEF a, b
<1>5. /\ a * RetryCount \in Nat /\ b * RetryCount \in Nat
      /\ a * RetryCount + RetryCount <= b * RetryCount
  <2>1. (a + 1) * RetryCount <= b * RetryCount
    BY <1>0, <1>3, Monotone
  <2>2. (a + 1) * RetryCount = a * RetryCount + RetryCount
    BY <1>0, <1>3
  <2> QED
    BY <1>0, <1>3, <2>1, <2>2
<1>6. tries \in Nat /\ tries + 1 <= b * RetryCount
  <2> DEFINE x == a * RetryCount
             y == b * RetryCount
  <2>1. x \in Nat /\ y \in Nat /\ x + RetryCount <= y
    BY <1>5
  <2> HIDE DEF x, y
  <2>2. x + poll.try \in Nat /\ x + poll.try + 1 <= y
    BY <1>0, <1>1, <2>1
  <2> QED
    BY <2>2 DEF x, y
<1> HIDE DEF tries
<1>7. /\ tries * Timeout \in Nat /\ (b * RetryCount) * Timeout \in Nat
      /\ tries * Timeout + Timeout <= (b * RetryCount) * Timeout
  <2>1. (tries + 1) * Timeout <= (b * RetryCount) * Timeout
    BY <1>0, <1>5, <1>6, Monotone
  <2>2. (tries + 1) * Timeout = tries * Timeout + Timeout
    BY <1>0, <1>6
  <2> QED
    BY <1>0, <1>5, <1>6, <2>1, <2>2
<1> QED
  BY <1>0, <1>2, <1>4, <1>7

LEMMA Advanced ==
  ASSUME NEW a, NEW b, NEW x \in Nat, a = x, b = x + Timeout
  PROVE  a \in Nat /\ b \in Nat /\ a + Timeout <= b
<1>1. Timeout \in Nat
  BY Constants
<1> QED
  BY <1>1

\* A try takes no longer than the timeout, and is counted.
LEMMA SpentInTime ==
  ASSUME IndInv, ReadOk \/ ReadTimeout \/ ReadRemoveStep
  PROVE  /\ Spent(poll) \in Nat /\ Spent(poll') \in Nat /\ Spent(poll) + Timeout <= Spent(poll')
         /\ poll'.step = Polled.steps + 1 => poll'.try = 0
<1>0. /\ Steps \in Nat \ {0} /\ RetryCount \in Nat \ {0} /\ Timeout \in Nat
  BY Constants
<1>1. Reading /\ pc = "reading"
  BY PollGoesOn
<1>2. /\ poll.step \in 1 .. Steps /\ poll.try \in 0 .. RetryCount - 1
      /\ poll.failed \in 0 .. (poll.step + 1) - 1 /\ poll.failed + 1 \in 0 .. (poll.step + 1) - 1
      /\ poll.step <= Polled.steps
  BY <1>1, ReadingStep DEF Reading
<1>3. Polled \in DeviceUnit /\ poll \in Pool /\ Polled.steps \in 0 .. Steps
  BY <1>1, PolledUnit
<1>4. CASE \E failed \in 0 .. (poll.step + 1) - 1 :
             poll' = PollFrom(poll.step + 1, failed, Polled)
  <2>1. PICK failed \in 0 .. (poll.step + 1) - 1 :
               poll' = PollFrom(poll.step + 1, failed, Polled)
    BY <1>4
  <2>2. failed \in 0 .. poll.step
    BY <1>2, <2>1
  <2> QED
    BY <1>2, <1>3, <2>1, <2>2, SpentGrows
<1>5. CASE poll' = [poll EXCEPT !.try = poll.try + 1]
  <2>1. poll'.step = poll.step /\ poll'.try = poll.try + 1
    BY <1>3, <1>5 DEF Pool
  <2> DEFINE tries == (poll.step - 1) * RetryCount + poll.try
  <2>2. tries \in Nat
    <3>1. poll.step - 1 \in Nat /\ poll.try \in Nat /\ RetryCount \in Nat
      BY <1>0, <1>2
    <3> QED
      BY <3>1
  <2>3. Spent(poll) = tries * Timeout /\ Spent(poll') = (tries + 1) * Timeout
    <3>1. Spent(poll') = ((poll.step - 1) * RetryCount + (poll.try + 1)) * Timeout
      BY <2>1 DEF Spent
    <3>2. (poll.step - 1) * RetryCount + (poll.try + 1) = tries + 1
      <4> DEFINE x == (poll.step - 1) * RetryCount
      <4>1. x \in Nat /\ poll.try \in Nat
        BY <1>0, <1>2
      <4> HIDE DEF x
      <4>2. x + (poll.try + 1) = (x + poll.try) + 1
        BY <4>1
      <4> QED
        BY <4>2 DEF x
    <3> QED
      BY <3>1, <3>2 DEF Spent
  <2> HIDE DEF tries
  <2>4. tries * Timeout \in Nat /\ (tries + 1) * Timeout = tries * Timeout + Timeout
    BY <1>0, <2>2
  <2>5. poll'.step # Polled.steps + 1
    BY <1>2, <1>3, <2>1
  <2> QED
    BY <2>3, <2>4, <2>5, Advanced
<1> QED
  BY <1>2, <1>4, <1>5 DEF ReadOk, ReadTimeout, ReadRemoveStep

LEMMA LagGoesOn ==
  ASSUME IndInv, LagInv, ReadOk \/ ReadTimeout \/ ReadRemoveStep, FirstActive' => FirstActive
  PROVE  LagInv'
<1>0. /\ now \in Nat /\ Start \in Nat /\ Start <= now /\ Timeout \in Nat
      /\ pc = "reading" /\ Reading /\ Answered
  BY PollGoesOn, Constants, SMTT(30) DEF IndInv, TimeInv
<1>1. /\ devices \in Seq(DeviceUnit) /\ current \in DOMAIN devices /\ ctx
      /\ Polled.timeout \in Nat
  BY <1>0, PolledUnit DEF IndInv, LinkInv
<1>2. /\ pc' = "reading" /\ UNCHANGED <<ctx, last_connecting_time, current>>
      /\ devices' \in Seq(DeviceUnit) /\ SameOrder(devices', devices)
      /\ \A i \in DOMAIN devices' : devices'[i].timeout = devices[i].timeout
  BY PollGoesOn
<1> SUFFICES ASSUME last_connecting_time = 0, FirstActive
             PROVE  LagInv'
  BY <1>2 DEF LagInv
<1>3. /\ Polled.active /\ Polled.timeout <= Timeout
      /\ \A i \in DOMAIN devices' : devices'[i].timeout <= Timeout
  <2>1. DOMAIN devices' = DOMAIN devices
    BY <1>1, <1>2 DEF SameOrder
  <2> QED
    BY <1>0, <1>1, <1>2, <2>1 DEF LagInv, OnLine, Polled
<1>4. Polled'.active /\ Polled'.steps = Polled.steps
  BY <1>1, <1>2, <1>3 DEF SameOrder, Polled
<1>5. PICK t \in Start .. now : InTime(devices, t) /\ now <= t + Spent(poll)
  BY <1>0, <1>1 DEF LagInv, OnLine
<1>6. /\ Spent(poll) \in Nat /\ Spent(poll') \in Nat /\ Spent(poll) + Timeout <= Spent(poll')
      /\ poll'.step = Polled.steps + 1 => poll'.try = 0
  BY SpentInTime
<1>7. InTime(devices', t)
  BY <1>1, <1>2, <1>5, SameOrderInTime
<1>8. t \in Start .. now' /\ now' <= t + Spent(poll')
  <2>1. now' \in Nat /\ now <= now' /\ now' <= now + Polled.timeout
    BY <1>0, TimePasses
  <2>2. t \in Nat /\ Start <= t /\ t <= now /\ now <= t + Spent(poll)
    BY <1>0, <1>5
  <2>3. t \in Start .. now'
    BY <1>0, <2>1, <2>2
  <2>4. now' <= t + Spent(poll')
    BY <1>0, <1>1, <1>3, <1>6, <2>1, <2>2
  <2> QED
    BY <2>3, <2>4
<1>9. OnLine'
  BY <1>2, <1>4, <1>6, <1>7, <1>8 DEF OnLine
<1> QED
  BY <1>1, <1>2, <1>3, <1>9 DEF LagInv

LEMMA LagFinish ==
  ASSUME IndInv, LagInv, Finish, FirstActive' => FirstActive
  PROVE  LagInv'
<1>0. /\ now \in Nat /\ Start \in Nat /\ Start <= now /\ Timeout \in Nat
      /\ last_connecting_time \in Nat /\ MinSleep \in Nat /\ Pause \in Nat
      /\ devices \in Seq(DeviceUnit) /\ current \in DOMAIN devices
      /\ Steps \in Nat \ {0} /\ RetryCount \in Nat \ {0} /\ ctx
  <2>1. pc = "reading"
    BY DEF Finish
  <2> QED
    BY <2>1, Constants DEF IndInv, TimeInv, DeviceInv, LinkInv, Oldest
<1>1. /\ pc = "reading" /\ poll.step = Polled.steps + 1
      /\ Polled.time_for_recall \in Nat /\ Polled.steps \in 0 .. Steps /\ poll \in Pool
      /\ devices' = [devices EXCEPT ![current].next_read_at = now + Polled.time_for_recall]
      /\ UNCHANGED <<ctx, last_connecting_time>>
  BY PolledUnit DEF Finish, linkVars
<1> DEFINE due == now + Polled.time_for_recall
<1>2. devices' \in Seq(DeviceUnit) /\ devices' # <<>> /\ due \in Nat
  <2>1. due \in Nat
    BY <1>0, <1>1
  <2>2. devices' \in Seq(DeviceUnit)
    BY <1>0, <1>1, <2>1, PolledAgain
  <2> QED
    BY <1>0, <1>1, <2>1, <2>2
<1>11. PICK e \in Nat : /\ now <= e /\ e <= now + Pause
                        /\ BackToSelect(devices', TRUE, last_connecting_time, current, e)
  <2>1. ctx = TRUE
    BY <1>0 DEF IndInv, LinkInv
  <2> QED
    BY <2>1, FinishTurn
<1>3. now' = e /\ pc' = "select" /\ now' <= wake'
  BY <1>0, <1>2, <1>11, Turn
<1> SUFFICES ASSUME last_connecting_time = 0, FirstActive
             PROVE  LagInv'
  BY <1>1, <1>3 DEF LagInv
<1>4. /\ Len(devices') = Len(devices)
      /\ devices'[current].next_read_at = now + Polled.time_for_recall
      /\ \A i \in DOMAIN devices : devices'[i].timeout = devices[i].timeout
      /\ \A i \in DOMAIN devices : i # current =>
           /\ devices'[i].active = devices[i].active
           /\ devices'[i].next_read_at = devices[i].next_read_at
  <2> DEFINE unit == [devices[current] EXCEPT !.next_read_at = now + Polled.time_for_recall]
  <2>1. unit.next_read_at = now + Polled.time_for_recall /\ unit.timeout = devices[current].timeout
    <3>1. devices[current] \in DeviceUnit
      BY <1>0
    <3> QED
      BY <3>1 DEF DeviceUnit
  <2>2. devices' = [devices EXCEPT ![current] = unit]
    BY <1>1
  <2> HIDE DEF unit
  <2> QED
    BY <1>0, <2>1, <2>2
<1>5. \A i \in DOMAIN devices' : devices'[i].timeout <= Timeout
  <2>1. DOMAIN devices' = DOMAIN devices
    BY <1>1
  <2> QED
    BY <1>4, <2>1 DEF LagInv
<1>6. PICK t \in Start .. now : InTime(devices, t) /\ now <= t + Spent(poll)
  BY <1>0, <1>1 DEF LagInv, OnLine
<1>7. t \in Nat /\ Start <= t /\ t <= now
  BY <1>0, <1>6
<1>8. Spent(poll) \in Nat /\ Spent(poll) <= Cost
  <2>1. poll.try = 0
    BY <1>0, <1>1 DEF LagInv, OnLine
  <2> DEFINE n == Polled.steps
  <2>2. n \in Nat /\ n <= Steps /\ poll.step - 1 = n
    BY <1>0, <1>1
  <2>3. Spent(poll) = (n * RetryCount + 0) * Timeout
    BY <2>1, <2>2 DEF Spent
  <2> HIDE DEF n
  <2>4. n * RetryCount \in Nat /\ Steps * RetryCount \in Nat /\ n * RetryCount <= Steps * RetryCount
    BY <1>0, <2>2, Monotone
  <2>5. Spent(poll) = (n * RetryCount) * Timeout
    BY <2>3, <2>4
  <2>6. (n * RetryCount) * Timeout \in Nat
    BY <1>0, <2>4
  <2>7. (n * RetryCount) * Timeout <= (Steps * RetryCount) * Timeout
    BY <1>0, <2>4, Monotone
  <2> QED
    BY <2>5, <2>6, <2>7 DEF Cost
<1>9. e + MinSleep <= t + Round /\ e + MinSleep <= due + Round
  <2>1. /\ Cost \in Nat /\ Round \in Nat /\ Round = Cost + Pause + MinSleep /\ now <= due
    <3>1. Cost \in Nat /\ Round \in Nat
      BY Rounds
    <3>2. Round = Cost + Pause + MinSleep
      BY DEF Round
    <3>3. now <= due
      BY <1>0, <1>1
    <3> QED
      BY <3>1, <3>2, <3>3
  <2>2. now <= t + Cost
    BY <1>0, <1>6, <1>7, <1>8, <2>1
  <2> HIDE DEF due
  <2>3. e + MinSleep <= t + Round
    BY <1>0, <1>7, <1>11, <2>1, <2>2
  <2>4. e + MinSleep <= due + Round
    BY <1>0, <1>2, <1>11, <2>1
  <2> QED
    BY <2>3, <2>4
<1>10. InTime(devices', e + MinSleep)
  <2>1. Oldest(devices, current) /\ devices[current].active
    BY <1>0, <1>1 DEF IndInv, DeviceInv, LagInv, OnLine, Polled
  <2>2. e + MinSleep \in Nat /\ e + MinSleep <= devices'[current].next_read_at + Round
    BY <1>0, <1>4, <1>9
  <2> QED
    BY <1>0, <1>2, <1>4, <1>6, <1>7, <1>9, <2>1, <2>2, TurnInTime
<1>12. InTime(devices', wake')
  <2>1. Start <= e
    BY <1>0, <1>11
  <2> QED
    BY <1>0, <1>2, <1>10, <1>11, <2>1, EndOfTurn
<1>13. OnLine'
  BY <1>3, <1>12 DEF OnLine
<1> QED
  BY <1>0, <1>1, <1>3, <1>5, <1>13 DEF LagInv

LEMMA NotBefore ==
  ASSUME NEW t \in Nat, 1 <= t, NEW d \in Nat
  PROVE  t + d \in Nat /\ t + d # 0
OBVIOUS

LEMMA Settling ==
  ASSUME NEW s \in Nat, NEW t \in Nat, NEW due \in Nat,
         t <= s + ConnectTime, s <= due + FetchTime + MinSleep
  PROVE  t <= due + Settled + Round
BY Rounds

LEMMA LagStep ==
  ASSUME IndInv, LagInv, Next
  PROVE  LagInv'
<1>0. /\ now \in Nat /\ Start \in Nat /\ 1 <= Start /\ Start <= now /\ wake \in Nat
      /\ Reconnect \in Nat /\ ConnectTime \in Nat
      /\ devices \in Seq(DeviceUnit) /\ ctx \in BOOLEAN /\ last_connecting_time \in Nat
  BY Constants DEF IndInv, TimeInv, DeviceInv, LinkInv
<1>1. CASE (\E c \in Configs : ChangeConfig(c)) \/ DeleteNode
  BY <1>1, Unmoved DEF ChangeConfig, DeleteNode, linkVars
<1>2. CASE ReceiveUpdate
  <2>1. /\ devices' = devices /\ last_connecting_time' = last_connecting_time
        /\ pc' = "devices" \/ (pc' = "connect" /\ goal' = "update")
    BY <1>2 DEF ReceiveUpdate, StartConnecting, linkVars
  <2> QED
    BY <2>1 DEF LagInv, FirstActive, OnLine, OffLine
<1>3. CASE ReceiveDelete
  BY <1>3 DEF ReceiveDelete, LagInv, FirstActive, OnLine, OffLine
<1>4. CASE Wake
  <2>1. now' = wake /\ pc = "select" /\ UNCHANGED <<devices, ctx, last_connecting_time, wake>>
    BY <1>0, <1>4 DEF Wake, LagInv, AtLeast, linkVars
  <2>2. pc' = "tick" \/ (pc' = "devices" /\ goal' = "tick")
    BY <1>4 DEF Wake
  <2> SUFFICES ASSUME last_connecting_time = 0, FirstActive
               PROVE  LagInv'
    BY <2>1, <2>2 DEF LagInv, FirstActive
  <2>3. \A i \in DOMAIN devices : devices[i].timeout <= Timeout
    BY DEF LagInv
  <2>4. CASE ctx
    <3>1. OnLine'
      BY <2>1, <2>2, <2>4 DEF LagInv, OnLine
    <3> QED
      BY <2>1, <2>2, <2>3, <2>4, <3>1 DEF LagInv
  <2>5. CASE ~ctx
    <3>1. OffLine'
      BY <2>1, <2>2, <2>5 DEF LagInv, OffLine
    <3> QED
      BY <2>1, <2>2, <2>3, <2>5, <3>1 DEF LagInv
  <2> QED
    BY <1>0, <2>4, <2>5
<1>5. CASE \E n \in 0 .. Len(config.devices) :
             \E answered \in [1 .. n -> DOMAIN config.devices] : FetchDevices(answered)
  BY <1>5, LagFetch
<1>6. CASE TickConnected
  BY <1>6 DEF TickConnected, linkVars, LagInv, FirstActive, OnLine, OffLine
<1>7. CASE TickConnect
  BY <1>7 DEF TickConnect, StartConnecting, LagInv, FirstActive, OnLine, OffLine
<1>8. CASE \E t \in now .. now + ConnectTime : ConnectOk(t)
  <2>1. PICK t \in now .. now + ConnectTime : ConnectOk(t)
    BY <1>8
  <2>2. t \in Nat /\ now <= t /\ t <= now + ConnectTime /\ Start <= t
    BY <1>0, <2>1
  <2>3. /\ pc = "connect" /\ ~ctx /\ ctx' /\ UNCHANGED <<devices, last_connecting_time, goal>>
    BY <2>1 DEF ConnectOk, ConnectEnds, IndInv, LinkInv
  <2>4. pc' = "select" => now' <= wake'
    <3>1. CASE BackToSelect(devices, TRUE, last_connecting_time', current, t)
      <4>1. t <= wake' /\ now' = t
        BY <1>0, <2>2, <2>3, <3>1, Turn
      <4> QED
        BY <4>1
    <3> QED
      BY <2>1, <3>1 DEF ConnectOk, ConnectEnds
  <2> SUFFICES ASSUME last_connecting_time = 0, FirstActive
               PROVE  LagInv'
    BY <2>3, <2>4 DEF LagInv, FirstActive
  <2>5. \A i \in DOMAIN devices' : devices'[i].timeout <= Timeout
    BY <2>3 DEF LagInv
  <2>6. goal # "recover"
    BY <2>3 DEF LagInv
  <2>7. CASE goal = "update" /\ pc' = "devices"
    BY <2>3, <2>5, <2>7 DEF LagInv, OnLine
  <2>8. CASE goal = "tick" /\ pc' = "begin" /\ now' = t
    <3>1. \A i \in DOMAIN devices : now <= devices[i].next_read_at + FetchTime + MinSleep
      BY <1>0, <2>3, <2>8 DEF LagInv, OffLine
    <3>2. \A i \in DOMAIN devices : t <= devices[i].next_read_at + Settled + Round
      BY <1>0, <2>2, <3>1, Due, Settling
    <3>3. InTime(devices, t)
      BY <1>0, <2>2, <3>2, Fresh
    <3> QED
      BY <2>3, <2>5, <2>8, <3>3 DEF LagInv, OnLine
  <2> QED
    BY <2>1, <2>6, <2>7, <2>8 DEF ConnectOk, ConnectEnds
<1>9. CASE \E t \in now .. now + ConnectTime : ConnectFails(t)
  <2>1. PICK t \in now .. now + ConnectTime : ConnectFails(t)
    BY <1>9
  <2>2. t \in Nat /\ 1 <= t
    BY <1>0, <2>1
  <2>3. last_connecting_time' \in Nat /\ last_connecting_time' # 0
    BY <1>0, <2>1, <2>2 DEF ConnectFails, Disconnecting
  <2>4. pc' = "select" => now' <= wake'
    <3>1. CASE BackToSelect(devices, FALSE, last_connecting_time', current, t)
      <4>1. t <= wake' /\ now' = t
        BY <1>0, <2>2, <2>3, <3>1, Turn
      <4> QED
        BY <4>1
    <3> QED
      BY <2>1, <3>1 DEF ConnectFails, ConnectEnds
  <2> QED
    BY <2>3, <2>4 DEF LagInv
<1>10. CASE BeginInactive
  <2>1. /\ BackToSelect(devices, TRUE, last_connecting_time, current, now)
        /\ UNCHANGED <<devices, ctx, last_connecting_time>> /\ ctx = TRUE
        /\ devices # <<>> /\ ~devices[current].active
    BY <1>0, <1>10 DEF BeginInactive, IndInv, LinkInv, DeviceInv, linkVars, Polled
  <2>2. now' = now /\ pc' = "select" /\ now' <= wake' /\ wake' \in Nat
    BY <1>0, <2>1, Turn
  <2>3. ~FirstActive
    <3>1. Oldest(devices, current)
      BY <1>0, <2>1 DEF IndInv, DeviceInv
    <3> QED
      BY <2>1, <3>1 DEF Oldest, FirstActive
  <2> QED
    BY <2>1, <2>2, <2>3 DEF LagInv, FirstActive
<1>11. CASE Begin
  <2>1. /\ pc = "begin" /\ pc' = "reading" /\ Polled.active /\ ctx
        /\ UNCHANGED <<devices, ctx, last_connecting_time, current, now>>
        /\ poll' = PollFrom(1, 0, Polled)
    BY <1>11 DEF Begin, linkVars, IndInv, LinkInv
  <2>2. Spent(poll') \in Nat /\ poll'.try = 0
    <3>1. Polled \in DeviceUnit
      BY <2>1 DEF Polled, IndInv, DeviceInv, Oldest
    <3>2. Polled.steps \in Nat /\ RetryCount \in Nat /\ Timeout \in Nat
      BY <3>1, Constants DEF DeviceUnit
    <3>3. 1 \in 1 .. Polled.steps + 1 /\ 0 \in 0 .. 1 - 1
      BY <3>2
    <3>4. poll'.step \in 1 .. Polled.steps + 1 /\ poll'.try = 0
      BY <2>1, <3>1, <3>3, PollFromType
    <3>5. poll'.step - 1 \in Nat
      BY <3>2, <3>4
    <3>6. (poll'.step - 1) * RetryCount + 0 \in Nat
      BY <3>2, <3>5
    <3>7. ((poll'.step - 1) * RetryCount + 0) * Timeout \in Nat
      BY <3>2, <3>6
    <3> QED
      BY <3>4, <3>7 DEF Spent
  <2> SUFFICES ASSUME last_connecting_time = 0, FirstActive
               PROVE  LagInv'
    BY <2>1 DEF LagInv, FirstActive
  <2>3. InTime(devices, now) /\ \A i \in DOMAIN devices : devices[i].timeout <= Timeout
    BY <2>1 DEF LagInv, OnLine
  <2>4. now \in Start .. now' /\ now' <= now + Spent(poll')
    <3>1. now' = now /\ Start \in Int /\ now \in Int
      BY <1>0, <2>1
    <3>2. now <= now + Spent(poll')
      BY <1>0, <2>2
    <3> QED
      BY <1>0, <3>1, <3>2
  <2>5. OnLine'
    BY <2>1, <2>2, <2>3, <2>4 DEF OnLine, Polled
  <2> QED
    BY <2>1, <2>3, <2>5 DEF LagInv
<1>12. CASE ReadOk \/ ReadTimeout \/ ReadRemoveStep
  <2>1. pc # "devices"
    BY <1>12, PollGoesOn
  <2> QED
    BY <1>12, <2>1, FirstStays, LagGoesOn
<1>13. CASE ReadSocketFail
  <2>1. now' \in Nat /\ now <= now' /\ last_connecting_time' = now' + Reconnect
    BY <1>13, TimePasses DEF ReadSocketFail, Disconnecting
  <2>2. last_connecting_time' \in Nat /\ last_connecting_time' # 0
    <3>1. 1 <= now'
      BY <1>0, <2>1
    <3> QED
      BY <1>0, <2>1, <3>1, NotBefore
  <2>3. PICK t \in Nat : t = now'
    BY <2>1
  <2>4. BackToSelect(devices, FALSE, last_connecting_time', current, t)
    BY <1>13, <2>3 DEF ReadSocketFail
  <2>5. now' <= wake'
    BY <1>0, <2>2, <2>3, <2>4, Turn
  <2> QED
    BY <2>2, <2>5 DEF LagInv
<1>14. CASE ReadHeaderMisMatch
  <2>1. CASE Blamed > Len(devices)
    <3>1. /\ pc' = "panicked" /\ UNCHANGED <<devices, ctx, last_connecting_time>>
      BY <1>14, <2>1 DEF ReadHeaderMisMatch, linkVars
    <3> QED
      BY <3>1 DEF LagInv, FirstActive, OnLine, OffLine
  <2>2. CASE ~(Blamed > Len(devices))
    <3>1. last_connecting_time' = now' + Reconnect /\ pc' = "cooldown"
      BY <1>14, <2>2 DEF ReadHeaderMisMatch, Disconnecting
    <3>2. last_connecting_time' # 0
      <4>1. now' \in Nat /\ now <= now'
        BY <1>14, TimePasses DEF ReadHeaderMisMatch
      <4>2. 1 <= now'
        BY <1>0, <4>1
      <4> QED
        BY <1>0, <3>1, <4>1, <4>2, NotBefore
    <3> QED
      BY <3>1, <3>2 DEF LagInv
  <2> QED
    BY <2>1, <2>2
<1>15. CASE Recover
  <2>1. /\ pc = "cooldown" /\ pc' = "connect"
        /\ UNCHANGED <<devices, last_connecting_time>>
    BY <1>15 DEF Recover, StartConnecting
  <2> QED
    BY <2>1 DEF LagInv, FirstActive
<1>16. CASE Finish
  <2>1. pc # "devices"
    BY <1>16 DEF Finish
  <2> QED
    BY <1>16, <2>1, FirstStays, LagFinish
<1> QED
  BY <1>1, <1>2, <1>3, <1>4, <1>5, <1>6, <1>7, <1>8, <1>9, <1>10, <1>11, <1>12, <1>13,
     <1>14, <1>15, <1>16 DEF Next

\* LagBounded, for every order of devices: as when_next_device takes the oldest device,
\* each turn that makes the others one round later makes those that are late one fewer.
THEOREM BoundedLag == Spec => []LagBounded
<1>1. Init => LagInv
  BY Constants DEF Init, LagInv, FirstActive
<1>2. IndInv /\ LagInv /\ [Next]_vars => LagInv'
  <2>1. ASSUME UNCHANGED vars, LagInv
        PROVE  LagInv'
    BY <2>1, Unmoved DEF vars, linkVars
  <2> QED
    BY <2>1, LagStep
<1>3. IndInv /\ LagInv => LagBounded
  <2> SUFFICES ASSUME IndInv, LagInv, pc = "begin", ctx_state = "Connected",
                      last_connecting_time = 0, devices[1].active, NEW i \in Active
               PROVE  now - devices[i].next_read_at <= Settled + Len(devices) * Round
    BY DEF LagBounded, Round, Cost, Settled
  <2>1. /\ now \in Nat /\ devices \in Seq(DeviceUnit) /\ i \in DOMAIN devices
        /\ devices[i].active /\ devices[i].next_read_at \in Nat /\ devices # <<>>
    BY Constants, Due DEF IndInv, TimeInv, DeviceInv, Active
  <2>2. InTime(devices, now)
    BY <2>1 DEF IndInv, LinkInv, LagInv, FirstActive, OnLine
  <2>3. now <= devices[i].next_read_at + Settled + Len(devices) * Round
    BY <2>1, <2>2, LatestInTime
  <2>4. Settled \in Nat /\ Len(devices) * Round \in Nat
    <3>1. Len(devices) \in Nat /\ Round \in Nat
      BY <2>1, Rounds
    <3> QED
      BY <3>1, Rounds
  <2> QED
    BY <2>1, <2>3, <2>4
<1>4. Spec => []LagInv
  BY <1>1, <1>2, IndInvariant, PTL DEF Spec
<1> QED
  BY <1>3, <1>4, IndInvariant, PTL

-----------------------------------------------------------------------------
(* The hot reload.                                                           *)

NoUpdates == \A i \in DOMAIN bus : bus[i].event_type # "Update"

\* The last Update under way carries the address of the database; with none under way
\* the node has it.
AddressComes ==
  /\ \A i \in DOMAIN bus :
       bus[i].event_type = "Update" /\ (\A j \in DOMAIN bus : i < j => bus[j].event_type # "Update")
         => bus[i].addr = config.addr
  /\ NoUpdates => addr = config.addr

Matching ==
  /\ Len(devices) = Len(config.devices)
  /\ \A i \in DOMAIN devices :
       devices[i].id = config.devices[i].id /\ devices[i].active = config.devices[i].active

\* The devices are those of the database, unless they are to be fetched.
DevicesCome ==
  NoUpdates /\ bounded.dropped = 0 =>
    \/ Matching
    \/ pc \in {"devices", "returned"}
    \/ pc = "connect" /\ goal = "update"
    \/ pc = "select" /\ now = Start /\ devices = <<>>

ConfigEvent == [event_type : {"Update", "Delete"}, addr : {c.addr : c \in Configs}]
Counters == [changes : Nat, dropped : Nat]

ReloadInv ==
  /\ bounded \in Counters
  /\ bus \in Seq(ConfigEvent)
  /\ AddressComes
  /\ DevicesCome

-----------------------------------------------------------------------------
(* What is coming stays coming.                                              *)

LEMMA BusStep ==
  ASSUME ReloadInv, IndInv, Next
  PROVE  bus' \in Seq(ConfigEvent)
<1>0. bus \in Seq(ConfigEvent)
  BY DEF ReloadInv
<1>1. CASE \E c \in Configs : ChangeConfig(c)
  <2>1. PICK c \in Configs : ChangeConfig(c)
    BY <1>1
  <2>2. [event_type |-> "Update", addr |-> c.addr] \in ConfigEvent
    BY DEF ConfigEvent
  <2> QED
    BY <1>0, <2>1, <2>2 DEF ChangeConfig
<1>2. CASE DeleteNode
  <2>1. [event_type |-> "Delete", addr |-> config.addr] \in ConfigEvent
    BY DEF ConfigEvent, IndInv, DeviceInv
  <2> QED
    BY <1>0, <1>2, <2>1 DEF DeleteNode
<1>3. CASE ReceiveUpdate \/ ReceiveDelete
  BY <1>0, <1>3 DEF ReceiveUpdate, ReceiveDelete
<1>4. CASE bus' = bus
  BY <1>0, <1>4
<1>5. CASE \E n \in 0 .. Len(config.devices) :
             \E answered \in [1 .. n -> DOMAIN config.devices] : FetchDevices(answered)
  BY <1>4, <1>5, FetchKeepsAll DEF IndInv, DeviceInv
<1> QED
  BY <1>1, <1>2, <1>3, <1>4, <1>5
     DEF Next, Wake, TickConnected, TickConnect, ConnectOk, ConnectFails, ConnectEnds,
         BeginInactive, Begin, ReadOk, ReadTimeout, ReadRemoveStep, ReadSocketFail,
         ReadHeaderMisMatch, Recover, Finish, busVars

\* The requests that failed are not forgotten.
LEMMA CountersStep ==
  ASSUME ReloadInv, IndInv, Next
  PROVE  bounded' \in Counters /\ (bounded'.dropped = 0 => bounded.dropped = 0)
<1>0. bounded \in Counters /\ MaxChanges \in Nat
  BY Constants DEF ReloadInv
<1>1. CASE \/ bounded' = [bounded EXCEPT !.changes = bounded.changes + 1]
           \/ bounded' = [bounded EXCEPT !.changes = MaxChanges]
           \/ bounded' = [bounded EXCEPT !.dropped = bounded.dropped + 1]
           \/ bounded' = bounded
  BY <1>0, <1>1 DEF Counters
<1>2. CASE \E n \in 0 .. Len(config.devices) :
             \E answered \in [1 .. n -> DOMAIN config.devices] : FetchDevices(answered)
  BY <1>1, <1>2, FetchKeepsAll DEF IndInv, DeviceInv
<1> QED
  BY <1>1, <1>2
     DEF Next, ChangeConfig, DeleteNode, ReceiveUpdate, ReceiveDelete, Wake,
         TickConnected, TickConnect, ConnectOk, ConnectFails, ConnectEnds, BeginInactive, Begin,
         ReadOk, ReadTimeout, ReadRemoveStep, ReadSocketFail, ReadHeaderMisMatch, Recover, Finish

LEMMA AddressStep ==
  ASSUME ReloadInv, IndInv, Next
  PROVE  AddressComes'
<1>0. bus \in Seq(ConfigEvent)
  BY DEF ReloadInv
<1>1. CASE \E c \in Configs : ChangeConfig(c)
  <2>1. PICK c \in Configs : ChangeConfig(c)
    BY <1>1
  <2>2. /\ config' = c /\ addr' = addr
        /\ bus' = Append(bus, [event_type |-> "Update", addr |-> c.addr])
    BY <2>1 DEF ChangeConfig
  <2>3. /\ Len(bus) \in Nat /\ DOMAIN bus' = 1 .. Len(bus) + 1
        /\ bus'[Len(bus) + 1] = [event_type |-> "Update", addr |-> c.addr]
    BY <1>0, <2>2
  <2> QED
    BY <2>2, <2>3 DEF AddressComes, NoUpdates
<1>2. CASE DeleteNode
  <2>1. /\ config' = config /\ addr' = addr
        /\ bus' = Append(bus, [event_type |-> "Delete", addr |-> config.addr])
    BY <1>2 DEF DeleteNode
  <2>2. /\ Len(bus) \in Nat /\ DOMAIN bus' = 1 .. Len(bus) + 1 /\ DOMAIN bus = 1 .. Len(bus)
        /\ bus'[Len(bus) + 1].event_type = "Delete"
        /\ \A i \in DOMAIN bus : bus'[i] = bus[i]
    BY <1>0, <2>1
  <2>3. \A i \in DOMAIN bus' : bus'[i].event_type = "Update" => i \in DOMAIN bus
    BY <2>2
  <2>4. NoUpdates' => NoUpdates
    BY <2>2 DEF NoUpdates
  <2>5. \A i \in DOMAIN bus : i \in DOMAIN bus'
    BY <2>2
  <2> QED
    BY <2>1, <2>2, <2>3, <2>4, <2>5 DEF AddressComes, ReloadInv
<1>3. CASE ReceiveUpdate \/ ReceiveDelete
  <2>1. bus # <<>> /\ bus' = Tail(bus) /\ config' = config
    BY <1>3 DEF ReceiveUpdate, ReceiveDelete
  <2>2. /\ Len(bus) \in Nat \ {0} /\ DOMAIN bus = 1 .. Len(bus)
        /\ DOMAIN bus' = 1 .. Len(bus) - 1
        /\ \A i \in 1 .. Len(bus) - 1 : bus'[i] = bus[i + 1]
    BY <1>0, <2>1
  <2>3. \A i \in DOMAIN bus' : i + 1 \in DOMAIN bus
    BY <2>2
  <2>4. \A k \in DOMAIN bus : k # 1 => k - 1 \in DOMAIN bus' /\ bus'[k - 1] = bus[k]
    BY <2>2
  <2>5. ASSUME NEW i \in DOMAIN bus', bus'[i].event_type = "Update",
               \A j \in DOMAIN bus' : i < j => bus'[j].event_type # "Update"
        PROVE  bus'[i].addr = config.addr
    <3>1. i + 1 \in DOMAIN bus /\ bus[i + 1] = bus'[i]
      BY <2>2, <2>3
    <3>2. \A j \in DOMAIN bus : i + 1 < j => bus[j].event_type # "Update"
      <4> SUFFICES ASSUME NEW j \in DOMAIN bus, i + 1 < j
                   PROVE  bus[j].event_type # "Update"
        OBVIOUS
      <4>1. j - 1 \in DOMAIN bus' /\ bus'[j - 1] = bus[j] /\ i < j - 1
        BY <2>2, <2>4
      <4> QED
        BY <2>5, <4>1
    <3> QED
      BY <2>5, <3>1, <3>2 DEF ReloadInv, AddressComes
  <2>6. NoUpdates' => addr' = config.addr
    <3> SUFFICES ASSUME NoUpdates'
                 PROVE  addr' = config.addr
      OBVIOUS
    <3>1. \A k \in DOMAIN bus : k # 1 => bus[k].event_type # "Update"
      BY <2>4 DEF NoUpdates
    <3>2. 1 \in DOMAIN bus /\ Head(bus) = bus[1]
      BY <1>0, <2>1, <2>2
    <3>3. CASE bus[1].event_type = "Update"
      <4>1. addr' = bus[1].addr
        BY <1>3, <3>2, <3>3 DEF ReceiveUpdate, ReceiveDelete
      <4>2. \A k \in DOMAIN bus : 1 < k => bus[k].event_type # "Update"
        BY <3>1
      <4> QED
        BY <3>2, <3>3, <4>1, <4>2 DEF ReloadInv, AddressComes
    <3>4. CASE bus[1].event_type # "Update"
      <4>1. addr' = addr
        BY <1>3, <3>2, <3>4 DEF ReceiveUpdate, ReceiveDelete
      <4>2. NoUpdates
        BY <3>1, <3>4 DEF NoUpdates
      <4> QED
        BY <4>1, <4>2 DEF ReloadInv, AddressComes
    <3> QED
      BY <3>3, <3>4
  <2> QED
    BY <2>1, <2>5, <2>6 DEF AddressComes
<1>4. CASE UNCHANGED <<config, bus, addr>>
  BY <1>4 DEF ReloadInv, AddressComes, NoUpdates
<1>5. CASE \E n \in 0 .. Len(config.devices) :
             \E answered \in [1 .. n -> DOMAIN config.devices] : FetchDevices(answered)
  <2>1. UNCHANGED <<config, bus, addr>>
    BY <1>5 DEF FetchDevices, busVars
  <2> QED
    BY <1>4, <2>1
<1>6. CASE BeginInactive \/ Begin \/ ReadOk \/ ReadTimeout \/ ReadRemoveStep \/ ReadSocketFail
           \/ ReadHeaderMisMatch \/ Recover \/ Finish
  <2>1. UNCHANGED <<config, bus, addr>>
    BY <1>6 DEF BeginInactive, Begin, ReadOk, ReadTimeout, ReadRemoveStep, ReadSocketFail,
                ReadHeaderMisMatch, Recover, Finish, busVars
  <2> QED
    BY <1>4, <2>1
<1>7. CASE \/ Wake \/ TickConnected \/ TickConnect
           \/ \E t \in now .. now + ConnectTime : ConnectOk(t) \/ ConnectFails(t)
  <2>1. UNCHANGED <<config, bus, addr>>
    BY <1>7 DEF Wake, TickConnected, TickConnect, ConnectOk, ConnectFails, ConnectEnds, busVars
  <2> QED
    BY <1>4, <2>1
<1> QED
  BY <1>1, <1>2, <1>3, <1>5, <1>6, <1>7 DEF Next

\* An increasing map of a list into itself moves nothing.
LEMMA NothingLeftOut ==
  ASSUME NEW n \in Nat, NEW f \in [1 .. n -> 1 .. n],
         \A i, j \in 1 .. n : i < j => f[i] < f[j]
  PROVE  \A i \in 1 .. n : f[i] = i
<1>1. \A i \in 1 .. n : i <= f[i]
  <2> DEFINE low == {i \in 1 .. n : f[i] < i}
  <2> SUFFICES ASSUME low # {}
               PROVE  FALSE
    OBVIOUS
  <2>1. PICK m \in low : \A k \in low : m <= k
    <3>1. low \in SUBSET Nat
      OBVIOUS
    <3> HIDE DEF low
    <3> QED
      BY <3>1, LeastNat
  <2>2. m \in 1 .. n /\ f[m] \in 1 .. n /\ f[m] < m
    BY <2>1
  <2>3. f[f[m]] \in 1 .. n /\ f[f[m]] < f[m]
    BY <2>2
  <2>4. f[m] \in low
    BY <2>2, <2>3
  <2> QED
    BY <2>1, <2>2, <2>4
<1>2. \A i \in 1 .. n : f[i] <= i
  <2> DEFINE high == {i \in 1 .. n : f[i] > i}
             below == {n - i : i \in high}
  <2> SUFFICES ASSUME high # {}
               PROVE  FALSE
    OBVIOUS
  <2>1. PICK m \in below : \A k \in below : m <= k
    <3>1. \A i \in high : n - i \in Nat
      OBVIOUS
    <3> HIDE DEF high
    <3>2. below \in SUBSET Nat /\ below # {}
      BY <3>1
    <3> HIDE DEF below
    <3> QED
      BY <3>2, LeastNat
  <2>2. PICK i \in high : m = n - i
    BY <2>1
  <2>3. i \in 1 .. n /\ f[i] \in 1 .. n /\ f[i] > i
    BY <2>2
  <2>4. f[f[i]] > f[i]
    BY <2>3
  <2>5. f[i] \in high
    BY <2>3, <2>4
  <2>6. m <= n - f[i]
    <3> HIDE DEF high
    <3> QED
      BY <2>1, <2>5
  <2> HIDE DEF high, below
  <2> QED
    BY <2>2, <2>3, <2>6
<1> QED
  BY <1>1, <1>2

LEMMA DevicesStep ==
  ASSUME ReloadInv, IndInv, Next
  PROVE  DevicesCome'
<1> USE DEF linkVars, busVars
<1>0. bounded'.dropped = 0 => bounded.dropped = 0
  BY CountersStep
<1>1. CASE \E c \in Configs : ChangeConfig(c)
  <2>1. PICK c \in Configs : ChangeConfig(c)
    BY <1>1
  <2>2. /\ Len(bus) + 1 \in DOMAIN bus'
        /\ bus'[Len(bus) + 1] = [event_type |-> "Update", addr |-> c.addr]
    BY <2>1 DEF ChangeConfig, ReloadInv
  <2> QED
    BY <2>2 DEF DevicesCome, NoUpdates
<1>2. CASE DeleteNode
  <2>1. /\ bus \in Seq(ConfigEvent)
        /\ bus' = Append(bus, [event_type |-> "Delete", addr |-> config.addr])
    BY <1>2 DEF DeleteNode, ReloadInv
  <2>2. \A i \in DOMAIN bus : i \in DOMAIN bus' /\ bus'[i] = bus[i]
    BY <2>1
  <2>3. NoUpdates' => NoUpdates
    BY <2>2 DEF NoUpdates
  <2>4. UNCHANGED <<config, devices, pc, goal, now>>
    BY <1>2 DEF DeleteNode
  <2> QED
    BY <1>0, <2>3, <2>4 DEF ReloadInv, DevicesCome, Matching
<1>3. CASE ReceiveUpdate
  BY <1>3 DEF ReceiveUpdate, StartConnecting, DevicesCome
<1>4. CASE ReceiveDelete
  BY <1>4 DEF ReceiveDelete, DevicesCome
<1>5. CASE \E n \in 0 .. Len(config.devices) :
             \E answered \in [1 .. n -> DOMAIN config.devices] : FetchDevices(answered)
  <2>1. PICK n \in 0 .. Len(config.devices) :
               \E answered \in [1 .. n -> DOMAIN config.devices] : FetchDevices(answered)
    BY <1>5
  <2>2. PICK answered \in [1 .. n -> DOMAIN config.devices] : FetchDevices(answered)
    BY <2>1
  <2>3. config \in Configs /\ now \in Nat
    BY Constants DEF IndInv, DeviceInv, TimeInv
  <2>4. /\ devices' \in Seq(DeviceUnit) /\ Len(devices') = n
        /\ \A i \in 1 .. n : /\ devices'[i].id = config.devices[answered[i]].id
                             /\ devices'[i].active = config.devices[answered[i]].active
    BY <2>2, <2>3, Fetched
  <2>10. n \in Nat /\ config.devices \in Seq(DeviceSetting)
    BY <2>3, ReadMasterAssumption
  <2> SUFFICES ASSUME bounded'.dropped = 0
               PROVE  Matching'
    BY DEF DevicesCome
  <2>5. n = Len(config.devices)
    <3>1. bounded \in Counters /\ bounded.dropped = 0
      BY <1>0 DEF ReloadInv
    <3>2. bounded' # [bounded EXCEPT !.dropped = bounded.dropped + 1]
      BY <3>1 DEF Counters
    <3> QED
      BY <2>2, <2>10, <3>2, FetchKeeps
  <2>6. DOMAIN config.devices = 1 .. n
    BY <2>5, <2>10
  <2>7. \A i, j \in 1 .. n : i < j => answered[i] < answered[j]
    BY <2>2, <2>10, FetchKeeps
  <2>8. \A i \in 1 .. n : answered[i] = i
    BY <2>6, <2>7, <2>10, NothingLeftOut
  <2>9. config' = config /\ DOMAIN devices' = 1 .. n
    BY <2>2, <2>4, <2>10, FetchKeeps
  <2> QED
    BY <2>4, <2>5, <2>8, <2>9 DEF Matching
<1>6. CASE /\ pc # "devices" /\ UNCHANGED <<config, bus, bounded>>
           /\ ~ DeleteNode /\ ~ \E c \in Configs : ChangeConfig(c)
  <2>1. /\ SameDevices(devices', devices)
        /\ devices \in Seq(DeviceUnit) /\ devices' \in Seq(DeviceUnit)
    BY <1>6, OnlyFetched, DeviceStep DEF IndInv, DeviceInv
  <2>2. DOMAIN devices' = DOMAIN devices
    BY <2>1 DEF SameDevices
  <2>3. Matching => Matching'
    BY <1>6, <2>1, <2>2 DEF Matching, SameDevices
  <2>4. NoUpdates' => NoUpdates
    BY <1>6 DEF NoUpdates
  <2>5. CASE pc = "connect" /\ goal = "update"
    <3>1. pc' = "devices"
      BY <1>6, <2>5
         DEF Next, ReceiveUpdate, ReceiveDelete, Wake, FetchDevices,
             TickConnected, TickConnect, ConnectOk, ConnectFails, ConnectEnds, BeginInactive,
             Begin, ReadOk, ReadTimeout, ReadRemoveStep, ReadSocketFail, ReadHeaderMisMatch,
             Reading, Recover, Finish
    <3> QED
      BY <3>1 DEF DevicesCome
  <2>6. CASE pc = "returned"
    BY <1>6, <2>6
       DEF Next, DevicesCome, ReceiveUpdate, ReceiveDelete, Wake, FetchDevices,
           TickConnected, TickConnect, ConnectOk, ConnectFails, ConnectEnds, BeginInactive,
           Begin, ReadOk, ReadTimeout, ReadRemoveStep, ReadSocketFail, ReadHeaderMisMatch,
           Reading, Recover, Finish
  <2>7. CASE pc = "select" /\ devices = <<>>
    <3>1. CASE Wake
      BY <2>7, <3>1 DEF Wake, DevicesCome
    <3>2. CASE ReceiveUpdate \/ ReceiveDelete
      BY <1>3, <1>4, <3>2
    <3> QED
      BY <1>6, <2>7, <3>1, <3>2
         DEF Next, FetchDevices,
             TickConnected, TickConnect, ConnectOk, ConnectFails, BeginInactive,
             Begin, ReadOk, ReadTimeout, ReadRemoveStep, ReadSocketFail, ReadHeaderMisMatch,
             Reading, Recover, Finish
  <2> QED
    BY <1>0, <1>6, <2>3, <2>4, <2>5, <2>6, <2>7 DEF ReloadInv, DevicesCome
<1> QED
  BY <1>1, <1>2, <1>3, <1>4, <1>5, <1>6
     DEF Next, Wake, TickConnected, TickConnect, ConnectOk, ConnectFails, ConnectEnds,
         BeginInactive, Begin, ReadOk, ReadTimeout, ReadRemoveStep, ReadSocketFail,
         ReadHeaderMisMatch, Reading, Recover, Finish

\* Reloaded: between turns, with every Update received and every request for values
\* answered, update has brought ReadMaster the address and the devices of the database.
THEOREM HotReload == Spec => []Reloaded
<1>1. Init => ReloadInv
  BY Constants DEF Init, ReloadInv, Counters, AddressComes, NoUpdates, DevicesCome
<1>2. IndInv /\ ReloadInv /\ [Next]_vars => ReloadInv'
  <2>1. ASSUME IndInv, ReloadInv, Next
        PROVE  ReloadInv'
    BY <2>1, BusStep, CountersStep, AddressStep, DevicesStep DEF ReloadInv
  <2>2. ASSUME ReloadInv, UNCHANGED vars
        PROVE  ReloadInv'
    BY <2>2 DEF vars, busVars, linkVars, ReloadInv, AddressComes, NoUpdates, DevicesCome, Matching
  <2> QED
    BY <2>1, <2>2
<1>3. IndInv /\ ReloadInv => Reloaded
  <2> SUFFICES ASSUME IndInv, ReloadInv, pc = "select", bus = <<>>, now > Start, bounded.dropped = 0
               PROVE  addr = config.addr /\ Matching
    BY DEF Reloaded, Matching
  <2>1. NoUpdates
    BY DEF NoUpdates
  <2>2. now # Start
    BY Constants DEF IndInv, TimeInv
  <2> QED
    BY <2>1, <2>2 DEF ReloadInv, AddressComes, DevicesCome
<1> QED
  BY <1>1, <1>2, <1>3, IndInvariant, PTL DEF Spec

-----------------------------------------------------------------------------
(* Induction and recursion along a list.                                     *)

\* What holds at 0 and passes from each number to the next holds up to n.
LEMMA Upward ==
  ASSUME NEW n \in Nat, NEW T, 0 \in T, \A i \in 1 .. n : i - 1 \in T => i \in T
  PROVE  \A i \in 0 .. n : i \in T
<1> DEFINE Bad == {i \in 0 .. n : i \notin T}
<1>1. Bad = {}
  <2> SUFFICES ASSUME Bad # {} PROVE FALSE
    OBVIOUS
  <2>1. PICK k \in Bad : \A i \in Bad : k <= i
    <3>1. Bad \in SUBSET Nat
      OBVIOUS
    <3> HIDE DEF Bad
    <3> QED
      BY <3>1, LeastNat
  <2>2. k \in 1 .. n /\ k - 1 \in 0 .. n /\ ~(k <= k - 1)
    BY <2>1
  <2>3. k - 1 \in T
    BY <2>1, <2>2
  <2> QED
    BY <2>1, <2>2, <2>3
<1> QED
  BY <1>1

\* f goes from a, by one step of G after the other.
StepsFrom(a, G, n, f) == f[0] = a /\ \A i \in 1 .. n : f[i] = G[i][f[i - 1]]

\* What a loop over n elements computes exists.
LEMMA LoopExists ==
  ASSUME NEW n \in Nat, NEW S, NEW a \in S, NEW G \in [1 .. n -> [S -> S]]
  PROVE  \E f \in [0 .. n -> S] : StepsFrom(a, G, n, f)
<1> DEFINE T == {m \in 0 .. n : \E f \in [0 .. m -> S] : StepsFrom(a, G, m, f)}
<1>1. 0 \in T
  <2> DEFINE g == [i \in 0 .. 0 |-> a]
  <2>1. g \in [0 .. 0 -> S] /\ StepsFrom(a, G, 0, g)
    BY DEF StepsFrom
  <2> QED
    BY <2>1
<1>2. ASSUME NEW m \in 1 .. n, m - 1 \in T
      PROVE  m \in T
  <2>1. PICK f \in [0 .. m - 1 -> S] : StepsFrom(a, G, m - 1, f)
    BY <1>2
  <2> DEFINE g == [i \in 0 .. m |-> IF i = m THEN G[m][f[m - 1]] ELSE f[i]]
  <2>2. G[m][f[m - 1]] \in S
    <3>1. f[m - 1] \in S
      OBVIOUS
    <3>2. G[m] \in [S -> S]
      OBVIOUS
    <3> QED
      BY <3>1, <3>2
  <2>3. g \in [0 .. m -> S]
    BY <2>2
  <2>4. \A i \in 0 .. m : g[i] = IF i = m THEN G[m][f[m - 1]] ELSE f[i]
    OBVIOUS
  <2> HIDE DEF g
  <2>5. g[0] = a
    BY <2>1, <2>4 DEF StepsFrom
  <2>6. \A i \in 1 .. m : g[i] = G[i][g[i - 1]]
    BY <2>1, <2>4 DEF StepsFrom
  <2>7. StepsFrom(a, G, m, g) /\ m \in 0 .. n
    BY <2>5, <2>6 DEF StepsFrom
  <2> QED
    BY <2>3, <2>7
<1>3. n \in T
  <2> HIDE DEF T
  <2>1. \A i \in 0 .. n : i \in T
    BY <1>1, <1>2, Upward
  <2> QED
    BY <2>1
<1> QED
  BY <1>3

\* Appending one element.
LEMMA Appended ==
  ASSUME NEW S, NEW q \in Seq(S), NEW e \in S
  PROVE  /\ Append(q, e) \in Seq(S) /\ Append(q, e) # <<>>
         /\ Len(q) \in Nat /\ Len(Append(q, e)) = Len(q) + 1
         /\ DOMAIN q = 1 .. Len(q) /\ DOMAIN Append(q, e) = 1 .. Len(q) + 1
         /\ \A i \in DOMAIN q : Append(q, e)[i] = q[i]
         /\ Append(q, e)[Len(q) + 1] = e
OBVIOUS

\* Replacing one element.
LEMMA Replaced ==
  ASSUME NEW S, NEW q \in Seq(S), NEW k \in DOMAIN q, NEW e \in S
  PROVE  /\ [q EXCEPT ![k] = e] \in Seq(S)
         /\ Len([q EXCEPT ![k] = e]) = Len(q)
         /\ DOMAIN [q EXCEPT ![k] = e] = DOMAIN q
         /\ [q EXCEPT ![k] = e][k] = e
         /\ \A i \in DOMAIN q : i # k => [q EXCEPT ![k] = e][i] = q[i]
OBVIOUS

\* Joining two lists.
LEMMA Joined ==
  ASSUME NEW S, NEW p \in Seq(S), NEW q \in Seq(S)
  PROVE  p \o q \in Seq(S) /\ Range(p \o q) = Range(p) \cup Range(q)
<1>1. /\ p \o q \in Seq(S) /\ Len(p) \in Nat /\ Len(q) \in Nat
      /\ DOMAIN p = 1 .. Len(p) /\ DOMAIN q = 1 .. Len(q)
      /\ DOMAIN (p \o q) = 1 .. Len(p) + Len(q)
      /\ \A i \in 1 .. Len(p) + Len(q) :
           (p \o q)[i] = IF i <= Len(p) THEN p[i] ELSE q[i - Len(p)]
  OBVIOUS
<1>2. ASSUME NEW i \in DOMAIN q
      PROVE  Len(p) + i \in DOMAIN (p \o q) /\ (p \o q)[Len(p) + i] = q[i]
  BY <1>1
<1>3. ASSUME NEW i \in DOMAIN p
      PROVE  i \in DOMAIN (p \o q) /\ (p \o q)[i] = p[i]
  BY <1>1
<1>4. ASSUME NEW i \in DOMAIN (p \o q)
      PROVE  (p \o q)[i] \in Range(p) \cup Range(q)
  <2>1. CASE i <= Len(p)
    BY <1>1, <2>1 DEF Range
  <2>2. CASE ~(i <= Len(p))
    <3>1. i - Len(p) \in DOMAIN q /\ (p \o q)[i] = q[i - Len(p)]
      BY <1>1, <2>2
    <3> QED
      BY <3>1 DEF Range
  <2> QED
    BY <2>1, <2>2
<1>5. Range(p \o q) \subseteq Range(p) \cup Range(q)
  BY <1>4 DEF Range
<1>6. Range(p) \subseteq Range(p \o q)
  BY <1>3 DEF Range
<1>7. Range(q) \subseteq Range(p \o q)
  BY <1>2 DEF Range
<1> QED
  BY <1>1, <1>5, <1>6, <1>7

-----------------------------------------------------------------------------
(* FlattenSeq.                                                               *)

IsFlatten(ss, f) ==
  f = [i \in 1 .. Len(ss) |-> IF i = 1 THEN ss[i] ELSE f[i - 1] \o ss[i]]

\* The loop of FlattenSeq is defined for every list of lists.
LEMMA FlattenExists ==
  ASSUME NEW S, NEW ss \in Seq(Seq(S))
  PROVE  \E f : IsFlatten(ss, f)
<1> DEFINE n == Len(ss)
           G == [i \in 1 .. n |-> [x \in Seq(S) |-> x \o ss[i]]]
<1>1. n \in Nat /\ \A i \in 1 .. n : ss[i] \in Seq(S)
  OBVIOUS
<1>2. <<>> \in Seq(S)
  OBVIOUS
<1> HIDE DEF n
<1>3. G \in [1 .. n -> [Seq(S) -> Seq(S)]]
  <2>1. ASSUME NEW i \in 1 .. n, NEW x \in Seq(S)
        PROVE  x \o ss[i] \in Seq(S)
    BY <1>1
  <2> QED
    BY <2>1
<1>4. \A i \in 1 .. n, x \in Seq(S) : G[i][x] = x \o ss[i]
  OBVIOUS
<1> HIDE DEF G
<1>5. PICK h \in [0 .. n -> Seq(S)] : StepsFrom(<<>>, G, n, h)
  BY <1>1, <1>2, <1>3, LoopExists
<1> DEFINE f == [i \in 1 .. n |-> h[i]]
<1>6. ASSUME NEW i \in 1 .. n
      PROVE  f[i] = IF i = 1 THEN ss[i] ELSE f[i - 1] \o ss[i]
  <2>1. f[i] = h[i - 1] \o ss[i]
    <3>1. h[i - 1] \in Seq(S) /\ h[i] = G[i][h[i - 1]]
      BY <1>1, <1>5 DEF StepsFrom
    <3> QED
      BY <1>4, <3>1
  <2>4. i \in Nat /\ (i # 1 => f[i - 1] = h[i - 1])
    BY <1>1
  <2> HIDE DEF f
  <2>2. CASE i = 1
    <3>1. h[0] = <<>>
      BY <1>5 DEF StepsFrom
    <3>2. <<>> \o ss[i] = ss[i]
      BY <1>1
    <3>3. i - 1 = 0
      BY <2>2
    <3> QED
      BY <2>1, <2>2, <3>1, <3>2, <3>3, Zenon
  <2>3. CASE i # 1
    BY <2>1, <2>3, <2>4
  <2> QED
    BY <2>2, <2>3
<1>7. IsFlatten(ss, f)
  <2>1. f = [i \in 1 .. n |-> f[i]]
    OBVIOUS
  <2>2. f = [i \in 1 .. n |-> IF i = 1 THEN ss[i] ELSE f[i - 1] \o ss[i]]
    BY <1>6
  <2> HIDE DEF f
  <2> QED
    BY <2>2 DEF IsFlatten, n
<1> QED
  BY <1>7

\* A list of lists in one has the elements of all of them.
LEMMA Flattened ==
  ASSUME NEW S, NEW ss \in Seq(Seq(S))
  PROVE  /\ FlattenSeq(ss) \in Seq(S)
         /\ \A x : x \in Range(FlattenSeq(ss)) <=> \E i \in DOMAIN ss : x \in Range(ss[i])
<1> DEFINE flat == CHOOSE f : IsFlatten(ss, f)
           n == Len(ss)
<1>1. n \in Nat /\ DOMAIN ss = 1 .. n /\ \A i \in 1 .. n : ss[i] \in Seq(S)
  OBVIOUS
<1>2. CASE n = 0
  <2>1. FlattenSeq(ss) = ss
    BY <1>1, <1>2 DEF FlattenSeq
  <2>2. ss = <<>> /\ DOMAIN ss = {}
    BY <1>1, <1>2
  <2>3. FlattenSeq(ss) \in Seq(S)
    <3>1. <<>> \in Seq(S)
      OBVIOUS
    <3> QED
      BY <2>1, <2>2, <3>1
  <2>4. \A x : x \notin Range(FlattenSeq(ss))
    BY <2>1, <2>2 DEF Range
  <2> QED
    BY <2>2, <2>3, <2>4
<1>3. CASE n # 0
  <2>1. FlattenSeq(ss) = flat[n]
    BY <1>3 DEF FlattenSeq, IsFlatten
  <2>2. IsFlatten(ss, flat)
    BY FlattenExists
  <2> HIDE DEF flat
  <2>3. \A i \in 1 .. n : flat[i] = IF i = 1 THEN ss[i] ELSE flat[i - 1] \o ss[i]
    BY <2>2 DEF IsFlatten
  <2> HIDE DEF n
  <2> DEFINE Has(i) == /\ flat[i] \in Seq(S)
                       /\ \A x : x \in Range(flat[i]) <=> \E j \in 1 .. i : x \in Range(ss[j])
             T == {i \in 0 .. n : i = 0 \/ Has(i)}
  <2>4. ASSUME NEW i \in 1 .. n, i - 1 \in T
        PROVE  i \in T
    <3>1. CASE i = 1
      <4>1. flat[i] = ss[i]
        BY <2>3, <3>1
      <4>2. Has(i)
        BY <1>1, <3>1, <4>1
      <4> QED
        BY <4>2
    <3>2. CASE i # 1
      <4>1. Has(i - 1) /\ i - 1 \in 1 .. n
        BY <1>1, <2>4, <3>2
      <4>2. flat[i] = flat[i - 1] \o ss[i] /\ ss[i] \in Seq(S)
        BY <1>1, <2>3, <3>2
      <4>3. flat[i] \in Seq(S) /\ Range(flat[i]) = Range(flat[i - 1]) \cup Range(ss[i])
        BY <4>1, <4>2, Joined
      <4>4. \A j : j \in 1 .. i <=> j \in 1 .. i - 1 \/ j = i
        BY <1>1
      <4>5. Has(i)
        BY <4>1, <4>3, <4>4
      <4> QED
        BY <4>5
    <3> QED
      BY <3>1, <3>2
  <2>5. n \in T
    <3>1. 0 \in T
      BY <1>1
    <3> HIDE DEF T
    <3>2. \A i \in 0 .. n : i \in T
      BY <1>1, <2>4, <3>1, Upward
    <3> QED
      BY <1>1, <3>2
  <2> QED
    BY <1>1, <1>3, <2>1, <2>5
<1> QED
  BY <1>2, <1>3
-----------------------------------------------------------------------------
(* Vec::sort.                                                                *)

\* i is not behind j in the sorted list.
Before(s, i, j) == s[i] < s[j] \/ (s[i] = s[j] /\ i <= j)
UpTo(s, i) == {j \in DOMAIN s : Before(s, j, i)}
Place(s, k) == CHOOSE i \in DOMAIN s : Cardinality(UpTo(s, i)) = k

\* Every place of the sorted list is taken by one register.
LEMMA Places ==
  ASSUME NEW s \in Seq(Int)
  PROVE  /\ \A i \in DOMAIN s : \E k \in DOMAIN s : Place(s, k) = i
         /\ \A k \in DOMAIN s : Place(s, k) \in DOMAIN s
         /\ \A k, l \in DOMAIN s : k < l => Before(s, Place(s, k), Place(s, l))
<1> DEFINE D == DOMAIN s
           R == [i \in D |-> Cardinality(UpTo(s, i))]
<1>1. /\ Len(s) \in Nat /\ D = 1 .. Len(s) /\ \A i \in D : s[i] \in Int
      /\ IsFiniteSet(D) /\ Cardinality(D) = Len(s)
  <2>1. Len(s) \in Nat /\ D = 1 .. Len(s) /\ \A i \in D : s[i] \in Int
    OBVIOUS
  <2>2. IsFiniteSet(1 .. Len(s)) /\ Cardinality(1 .. Len(s)) = Len(s)
    BY <2>1, FS_Interval
  <2> QED
    BY <2>1, <2>2
<1>2. ASSUME NEW i \in D
      PROVE  /\ IsFiniteSet(UpTo(s, i)) /\ R[i] \in Nat /\ R[i] <= Len(s) /\ R[i] # 0
             /\ R[i] = Cardinality(UpTo(s, i))
  <2>1. UpTo(s, i) \in SUBSET D /\ i \in UpTo(s, i)
    BY <1>1 DEF UpTo, Before
  <2>2. IsFiniteSet(UpTo(s, i)) /\ Cardinality(UpTo(s, i)) <= Cardinality(D)
    BY <1>1, <2>1, FS_Subset
  <2>3. Cardinality(UpTo(s, i)) \in Nat /\ Cardinality(UpTo(s, i)) # 0
    BY <2>1, <2>2, FS_CardinalityType, FS_EmptySet
  <2> QED
    BY <1>1, <2>2, <2>3
<1>3. ASSUME NEW i \in D, NEW j \in D, Before(s, i, j), i # j
      PROVE  R[i] < R[j]
  <2>1. UpTo(s, i) \subseteq UpTo(s, j) /\ j \notin UpTo(s, i) /\ j \in UpTo(s, j)
    BY <1>1, <1>3 DEF UpTo, Before
  <2> HIDE DEF D
  <2>2. /\ Cardinality(UpTo(s, i)) <= Cardinality(UpTo(s, j))
        /\ Cardinality(UpTo(s, i)) # Cardinality(UpTo(s, j))
    BY <1>2, <2>1, FS_Subset
  <2> QED
    BY <1>2, <2>2
<1>4. \A i, j \in D : i # j => Before(s, i, j) \/ Before(s, j, i)
  BY <1>1 DEF Before
<1>5. R \in [D -> D] /\ \A i \in D : R[i] = Cardinality(UpTo(s, i))
  <2>1. \A i \in D : R[i] \in D
    BY <1>1, <1>2
  <2> QED
    BY <2>1
<1> HIDE DEF R, D
<1>6. \A i, j \in D : R[i] = R[j] => i = j
  BY <1>1, <1>2, <1>3, <1>4
<1>7. \A k \in D : \E i \in D : R[i] = k
  <2>1. R \in Injection(D, D)
    BY <1>5, <1>6 DEF Injection, IsInjective
  <2>2. R \in Surjection(D, D)
    BY <1>1, <2>1, FS_Injection
  <2> QED
    BY <2>2 DEF Surjection
<1>8. ASSUME NEW k \in D
      PROVE  Place(s, k) \in D /\ R[Place(s, k)] = k
  <2>1. PICK i \in D : Cardinality(UpTo(s, i)) = k
    BY <1>5, <1>7
  <2>2. Place(s, k) \in D /\ Cardinality(UpTo(s, Place(s, k))) = k
    BY <2>1 DEF Place, D
  <2> QED
    BY <1>5, <2>2
<1>9. ASSUME NEW i \in D
      PROVE  R[i] \in D /\ Place(s, R[i]) = i
  <2>1. R[i] \in D
    BY <1>5
  <2> QED
    BY <1>6, <1>8, <2>1
<1>10. ASSUME NEW k \in D, NEW l \in D, k < l
       PROVE  Before(s, Place(s, k), Place(s, l))
  <2>1. k # l
    BY <1>1, <1>10
  <2>2. Place(s, k) # Place(s, l)
    BY <1>8, <2>1, Zenon
  <2>3. CASE Before(s, Place(s, l), Place(s, k))
    <3>1. l < k
      BY <1>3, <1>8, <2>2, <2>3
    <3> QED
      BY <1>1, <1>10, <3>1
  <2>4. CASE ~Before(s, Place(s, l), Place(s, k))
    BY <1>4, <1>8, <2>2, <2>4
  <2> QED
    BY <2>3, <2>4
<1> QED
  BY <1>8, <1>9, <1>10 DEF D

\* The sorted registers are the registers, in ascending order.
LEMMA SortedUp ==
  ASSUME NEW s \in Seq(Int)
  PROVE  /\ Sorted(s) \in Seq(Int) /\ Len(Sorted(s)) = Len(s)
         /\ Range(Sorted(s)) = Range(s)
         /\ \A k, l \in DOMAIN Sorted(s) : k <= l => Sorted(s)[k] <= Sorted(s)[l]
<1>1. Sorted(s) = [k \in DOMAIN s |-> s[Place(s, k)]]
  BY DEF Sorted, Place, UpTo, Before
<1>2. /\ Len(s) \in Nat /\ DOMAIN s = 1 .. Len(s) /\ \A i \in DOMAIN s : s[i] \in Int
  OBVIOUS
<1>3. \A k \in DOMAIN s : Place(s, k) \in DOMAIN s
  BY Places
<1>4. \A i \in DOMAIN s : \E k \in DOMAIN s : Place(s, k) = i
  BY Places
<1>5. \A k, l \in DOMAIN s : k < l => Before(s, Place(s, k), Place(s, l))
  BY Places
<1>6. DOMAIN Sorted(s) = DOMAIN s /\ \A k \in DOMAIN s : Sorted(s)[k] = s[Place(s, k)]
  BY <1>1
<1>7. \A k \in DOMAIN s : Sorted(s)[k] \in Int
  BY <1>2, <1>3, <1>6
<1>8. Sorted(s) \in Seq(Int) /\ Len(Sorted(s)) = Len(s)
  BY <1>1, <1>2, <1>3
<1>9. Range(Sorted(s)) \subseteq Range(s)
  BY <1>3, <1>6 DEF Range
<1>10. Range(s) \subseteq Range(Sorted(s))
  BY <1>4, <1>6 DEF Range
<1>11. ASSUME NEW k \in DOMAIN s, NEW l \in DOMAIN s, k <= l
       PROVE  Sorted(s)[k] <= Sorted(s)[l]
  <2>1. CASE k = l
    BY <1>7, <2>1
  <2>2. CASE k # l
    <3>1. k < l
      BY <1>2, <1>11, <2>2
    <3>2. Before(s, Place(s, k), Place(s, l))
      BY <1>5, <3>1
    <3> QED
      BY <1>2, <1>3, <1>6, <3>2 DEF Before
  <2> QED
    BY <2>1, <2>2
<1> QED
  BY <1>6, <1>8, <1>9, <1>10, <1>11

-----------------------------------------------------------------------------
(* reg_sort.                                                                 *)

\* One turn of the loop.
Grown(q, res, i) ==
  IF i > 1 /\ q[i] = q[i - 1] + 1 THEN [res EXCEPT ![Len(res)] = Append(@, q[i])]
  ELSE Append(res, <<q[i]>>)

IsGroups(q, f) ==
  f = [i \in 0 .. Len(q) |-> IF i = 0 THEN <<>> ELSE Grown(q, f[i - 1], i)]

\* One register more keeps the groups a list of runs.
LEMMA GrownType ==
  ASSUME NEW q \in Seq(Int), NEW res \in Seq(Seq(Int)), NEW i \in 1 .. Len(q)
  PROVE  Grown(q, res, i) \in Seq(Seq(Int))
<1>1. q[i] \in Int /\ <<q[i]>> \in Seq(Int)
  OBVIOUS
<1>2. Append(res, <<q[i]>>) \in Seq(Seq(Int))
  BY <1>1, Appended
<1>3. [res EXCEPT ![Len(res)] = Append(@, q[i])] \in Seq(Seq(Int))
  <2>1. \A k \in DOMAIN res : res[k] \in Seq(Int)
    OBVIOUS
  <2>2. \A k \in DOMAIN res : Append(res[k], q[i]) \in Seq(Int)
    BY <1>1, <2>1, Appended
  <2>3. CASE Len(res) \in DOMAIN res
    <3> DEFINE T == Seq(Int)
               e == Append(res[Len(res)], q[i])
    <3>1. res \in Seq(T) /\ e \in T
      BY <2>2, <2>3
    <3>2. [res EXCEPT ![Len(res)] = Append(@, q[i])] = [res EXCEPT ![Len(res)] = e]
      OBVIOUS
    <3> HIDE DEF T, e
    <3>3. [res EXCEPT ![Len(res)] = e] \in Seq(T)
      BY <2>3, <3>1, Replaced
    <3> QED
      BY <3>2, <3>3 DEF T
  <2>4. CASE Len(res) \notin DOMAIN res
    <3>1. [res EXCEPT ![Len(res)] = Append(@, q[i])] = res
      BY <2>4
    <3> QED
      BY <3>1
  <2> QED
    BY <2>3, <2>4
<1> QED
  BY <1>2, <1>3 DEF Grown

\* The loop of reg_sort is defined for every list of registers.
LEMMA GroupsExist ==
  ASSUME NEW q \in Seq(Int)
  PROVE  \E f : IsGroups(q, f)
<1> DEFINE n == Len(q)
           S == Seq(Seq(Int))
           G == [i \in 1 .. n |-> [x \in S |-> Grown(q, x, i)]]
<1>1. n \in Nat /\ <<>> \in S
  OBVIOUS
<1>2. \A i \in 1 .. n, x \in S : Grown(q, x, i) \in S
  BY GrownType
<1> HIDE DEF n, S
<1>3. G \in [1 .. n -> [S -> S]]
  BY <1>2
<1>4. \A i \in 1 .. n, x \in S : G[i][x] = Grown(q, x, i)
  OBVIOUS
<1> HIDE DEF G
<1>5. PICK f \in [0 .. n -> S] : StepsFrom(<<>>, G, n, f)
  BY <1>1, <1>3, LoopExists
<1>6. ASSUME NEW i \in 0 .. n
      PROVE  f[i] = IF i = 0 THEN <<>> ELSE Grown(q, f[i - 1], i)
  <2>1. CASE i = 0
    BY <1>5, <2>1 DEF StepsFrom
  <2>2. CASE i # 0
    <3>1. i \in 1 .. n /\ f[i - 1] \in S
      BY <1>1, <2>2
    <3>2. f[i] = G[i][f[i - 1]]
      BY <1>5, <3>1 DEF StepsFrom
    <3> QED
      BY <1>4, <2>2, <3>1, <3>2
  <2> QED
    BY <2>1, <2>2
<1>7. f = [i \in 0 .. n |-> f[i]]
  OBVIOUS
<1>8. f = [i \in 0 .. n |-> IF i = 0 THEN <<>> ELSE Grown(q, f[i - 1], i)]
  BY <1>6, <1>7
<1> QED
  BY <1>8 DEF IsGroups, n

\* Runs of consecutive numbers of S.
Runs(S) == {d \in Seq(S) : Len(d) > 0 /\ \A k \in DOMAIN d : d[k] = d[1] + k - 1}

EndOf(d) == d[Len(d)]

\* A run goes on with the next register.
LEMMA RunExtended ==
  ASSUME NEW S \in SUBSET Int, NEW d \in Runs(S), NEW x \in S, x = EndOf(d) + 1
  PROVE  /\ Append(d, x) \in Runs(S) /\ EndOf(Append(d, x)) = x
         /\ Range(Append(d, x)) = Range(d) \cup {x} /\ x - 1 \in Range(d)
<1>1. /\ d \in Seq(S) /\ Len(d) \in Nat /\ Len(d) > 0 /\ DOMAIN d = 1 .. Len(d)
      /\ \A k \in DOMAIN d : d[k] = d[1] + k - 1 /\ d[k] \in Int
  <2>1. d \in Seq(S) /\ Len(d) > 0 /\ \A k \in DOMAIN d : d[k] = d[1] + k - 1
    BY DEF Runs
  <2>2. Len(d) \in Nat /\ DOMAIN d = 1 .. Len(d) /\ \A k \in DOMAIN d : d[k] \in S
    BY <2>1
  <2> QED
    BY <2>1, <2>2
<1>2. /\ Append(d, x) \in Seq(S) /\ Len(Append(d, x)) = Len(d) + 1
      /\ DOMAIN Append(d, x) = 1 .. Len(d) + 1
      /\ \A i \in DOMAIN d : Append(d, x)[i] = d[i]
      /\ Append(d, x)[Len(d) + 1] = x
  BY <1>1, Appended
<1>3. /\ x = d[1] + Len(d) /\ x - 1 = d[Len(d)]
      /\ Len(d) \in DOMAIN d /\ Len(d) + 1 \in DOMAIN Append(d, x)
  <2>1. Len(d) \in DOMAIN d /\ 1 \in DOMAIN d
    BY <1>1
  <2>2. d[Len(d)] = d[1] + Len(d) - 1 /\ d[1] \in Int
    BY <1>1, <2>1
  <2>3. x = d[Len(d)] + 1
    BY DEF EndOf
  <2> QED
    BY <1>1, <1>2, <2>1, <2>2, <2>3
<1>4. ASSUME NEW k \in 1 .. Len(d) + 1
      PROVE  Append(d, x)[k] = Append(d, x)[1] + k - 1
  <2>1. Append(d, x)[1] = d[1]
    BY <1>1, <1>2
  <2>2. CASE k = Len(d) + 1
    BY <1>1, <1>2, <1>3, <2>1, <2>2
  <2>3. CASE k # Len(d) + 1
    <3>1. k \in DOMAIN d
      BY <1>1, <2>3
    <3> QED
      BY <1>1, <1>2, <2>1, <3>1
  <2> QED
    BY <2>2, <2>3
<1>5. Append(d, x) \in Runs(S)
  <2> DEFINE new == Append(d, x)
  <2>1. /\ new \in Seq(S) /\ Len(new) > 0
        /\ \A k \in DOMAIN new : new[k] = new[1] + k - 1
    BY <1>1, <1>2, <1>4
  <2> HIDE DEF new
  <2>2. new \in Runs(S)
    BY <2>1 DEF Runs
  <2> QED
    BY <2>2 DEF new
<1>6. EndOf(Append(d, x)) = x
  BY <1>1, <1>2 DEF EndOf
<1>7. Range(Append(d, x)) = Range(d) \cup {x}
  <2>1. DOMAIN Append(d, x) = DOMAIN d \cup {Len(d) + 1}
    BY <1>1, <1>2
  <2>2. Range(Append(d, x)) \subseteq Range(d) \cup {x}
    BY <1>2, <2>1 DEF Range
  <2>3. x \in Range(Append(d, x))
    BY <1>2, <1>3 DEF Range
  <2>4. Range(d) \subseteq Range(Append(d, x))
    BY <1>2, <2>1 DEF Range
  <2> QED
    BY <2>2, <2>3, <2>4
<1>8. x - 1 \in Range(d)
  <2>1. d[Len(d)] \in Range(d)
    BY <1>3 DEF Range
  <2> QED
    BY <1>3, <2>1
<1> QED
  BY <1>5, <1>6, <1>7, <1>8

\* One register is a run.
LEMMA RunBegun ==
  ASSUME NEW S \in SUBSET Int, NEW x \in S
  PROVE  <<x>> \in Runs(S) /\ EndOf(<<x>>) = x /\ Range(<<x>>) = {x}
<1>1. <<x>> \in Seq(S) /\ Len(<<x>>) = 1 /\ DOMAIN <<x>> = {1} /\ <<x>>[1] = x
  OBVIOUS
<1> QED
  BY <1>1 DEF Runs, EndOf, Range

\* Some group holds both registers.
Together(res, x, y) == \E g \in DOMAIN res : x \in Range(res[g]) /\ y \in Range(res[g])

\* One more register: nothing is lost, it is in the last group, with the register
\* before it if that is its neighbour.
LEMMA GroupsGrow ==
  ASSUME NEW S \in SUBSET Int, NEW q \in Seq(S), NEW i \in 1 .. Len(q),
         NEW res \in Seq(Runs(S)),
         i > 1 => res # <<>> /\ EndOf(EndOf(res)) = q[i - 1]
  PROVE  LET new == Grown(q, res, i)
         IN  /\ new \in Seq(Runs(S)) /\ new # <<>> /\ EndOf(EndOf(new)) = q[i]
             /\ \A x, y : Together(res, x, y) => Together(new, x, y)
             /\ Together(new, q[i], q[i])
             /\ i > 1 /\ q[i] = q[i - 1] + 1 => Together(new, q[i - 1], q[i])
<1> DEFINE new == Grown(q, res, i)
           x0 == q[i]
<1>1. q[i] \in S /\ Len(q) \in Nat /\ Len(res) \in Nat /\ DOMAIN res = 1 .. Len(res)
  OBVIOUS
<1>2. \A g \in DOMAIN res : res[g] \in Runs(S)
  OBVIOUS
<1>3. CASE i > 1 /\ q[i] = q[i - 1] + 1
  <2> DEFINE last == Len(res)
             run == Append(res[last], x0)
  <2>1. last \in DOMAIN res
    BY <1>1, <1>3
  <2>2. new = [res EXCEPT ![last] = run]
    BY <1>3 DEF Grown
  <2>3. EndOf(res[last]) = q[i - 1]
    BY <1>3 DEF EndOf
  <2>4. /\ run \in Runs(S) /\ EndOf(run) = x0 /\ Range(run) = Range(res[last]) \cup {x0}
        /\ q[i - 1] \in Range(res[last])
    <3> DEFINE d == res[last]
    <3>1. q[i - 1] \in Int
      <4>1. i - 1 \in 1 .. Len(q)
        BY <1>1, <1>3
      <4>2. q[i - 1] \in S
        BY <4>1
      <4> QED
        BY <4>2
    <3>2. x0 = q[i - 1] + 1 /\ EndOf(d) = q[i - 1]
      BY <1>3, <2>3
    <3>3. d \in Runs(S) /\ x0 \in S
      BY <1>1, <1>2, <2>1
    <3>4. run = Append(d, x0)
      OBVIOUS
    <3> HIDE DEF x0, d, run
    <3>5. x0 = EndOf(d) + 1 /\ x0 - 1 = q[i - 1]
      BY <3>1, <3>2
    <3>6. /\ run \in Runs(S) /\ EndOf(run) = x0 /\ Range(run) = Range(d) \cup {x0}
          /\ x0 - 1 \in Range(d)
      BY <3>3, <3>4, <3>5, RunExtended
    <3> QED
      BY <3>5, <3>6 DEF d
  <2> HIDE DEF run
  <2>5. /\ DOMAIN new = DOMAIN res /\ new[last] = run
        /\ \A g \in DOMAIN res : g # last => new[g] = res[g]
    BY <2>1, <2>2
  <2>6. new \in Seq(Runs(S)) /\ Len(new) = Len(res)
    <3> DEFINE R == Runs(S)
    <3>1. res \in Seq(R) /\ run \in R
      BY <2>4
    <3> HIDE DEF R, new, last
    <3> QED
      BY <2>1, <2>2, <3>1, Replaced DEF R
  <2> HIDE DEF new
  <2>7. new # <<>> /\ EndOf(EndOf(new)) = x0
    <3>1. new # <<>>
      BY <1>1, <2>1, <2>6
    <3>2. EndOf(new) = run
      BY <2>5, <2>6 DEF EndOf
    <3> QED
      BY <2>4, <3>1, <3>2
  <2>8. \A x, y : Together(res, x, y) => Together(new, x, y)
    <3> SUFFICES ASSUME NEW x, NEW y, NEW g \in DOMAIN res,
                        x \in Range(res[g]), y \in Range(res[g])
                 PROVE  Together(new, x, y)
      BY DEF Together
    <3>1. g \in DOMAIN new /\ Range(res[g]) \subseteq Range(new[g])
      BY <2>4, <2>5
    <3> QED
      BY <3>1 DEF Together
  <2>9. Together(new, q[i], q[i]) /\ Together(new, q[i - 1], q[i])
    BY <2>1, <2>4, <2>5 DEF Together
  <2> QED
    BY <2>6, <2>7, <2>8, <2>9 DEF new
<1>4. CASE ~(i > 1 /\ q[i] = q[i - 1] + 1)
  <2> DEFINE run == <<x0>>
  <2>1. new = Append(res, run)
    BY <1>4 DEF Grown
  <2>2. run \in Runs(S) /\ EndOf(run) = x0 /\ Range(run) = {x0}
    BY <1>1, RunBegun
  <2> HIDE DEF run
  <2>3. /\ new \in Seq(Runs(S)) /\ new # <<>> /\ Len(new) = Len(res) + 1
        /\ DOMAIN new = 1 .. Len(res) + 1
        /\ \A g \in DOMAIN res : new[g] = res[g]
        /\ new[Len(res) + 1] = run
    <3> DEFINE R == Runs(S)
    <3>1. res \in Seq(R) /\ run \in R
      BY <2>2
    <3> HIDE DEF R
    <3>2. /\ Append(res, run) \in Seq(R) /\ Append(res, run) # <<>>
          /\ Len(Append(res, run)) = Len(res) + 1
          /\ DOMAIN Append(res, run) = 1 .. Len(res) + 1
          /\ \A g \in DOMAIN res : Append(res, run)[g] = res[g]
          /\ Append(res, run)[Len(res) + 1] = run
      BY <3>1, Appended
    <3> QED
      BY <2>1, <3>2 DEF R
  <2> HIDE DEF new
  <2>4. EndOf(EndOf(new)) = x0
    BY <2>2, <2>3 DEF EndOf
  <2>5. \A x, y : Together(res, x, y) => Together(new, x, y)
    <3> SUFFICES ASSUME NEW x, NEW y, NEW g \in DOMAIN res,
                        x \in Range(res[g]), y \in Range(res[g])
                 PROVE  Together(new, x, y)
      BY DEF Together
    <3>1. g \in DOMAIN new /\ new[g] = res[g]
      BY <1>1, <2>3
    <3> QED
      BY <3>1 DEF Together
  <2>6. Together(new, q[i], q[i])
    <3>1. Len(res) + 1 \in DOMAIN new
      BY <1>1, <2>3
    <3> QED
      BY <2>2, <2>3, <3>1 DEF Together
  <2> QED
    BY <1>4, <2>3, <2>4, <2>5, <2>6 DEF new
<1> QED
  BY <1>3, <1>4

\* In ascending order a register is followed by its neighbour at once.
LEMMA Neighbours ==
  ASSUME NEW q \in Seq(Int), \A k, l \in DOMAIN q : k <= l => q[k] <= q[l],
         NEW r \in Range(q), r + 1 \in Range(q)
  PROVE  \E k \in 1 .. Len(q) : k > 1 /\ q[k - 1] = r /\ q[k] = r + 1
<1> DEFINE L == {k \in DOMAIN q : q[k] = r + 1}
<1>1. Len(q) \in Nat /\ DOMAIN q = 1 .. Len(q) /\ \A k \in DOMAIN q : q[k] \in Int
  OBVIOUS
<1>2. PICK j \in DOMAIN q : q[j] = r
  BY DEF Range
<1>3. L # {} /\ L \in SUBSET Nat
  BY <1>1 DEF Range
<1>4. PICK k \in L : \A l \in L : k <= l
  <2> HIDE DEF L
  <2> QED
    BY <1>3, LeastNat
<1>5. k \in DOMAIN q /\ q[k] = r + 1 /\ r \in Int
  BY <1>1, <1>2, <1>4
<1>6. j < k
  <2>1. ~(k <= j)
    BY <1>1, <1>2, <1>5
  <2> QED
    BY <1>1, <1>2, <1>5, <2>1
<1>7. k - 1 \in DOMAIN q /\ j <= k - 1 /\ k - 1 <= k /\ k > 1
  BY <1>1, <1>2, <1>5, <1>6
<1>8. k - 1 \notin L
  <2>1. ~(k <= k - 1)
    BY <1>1, <1>5
  <2> HIDE DEF L
  <2> QED
    BY <1>4, <2>1
<1>9. q[k - 1] # r + 1
  BY <1>7, <1>8
<1>10. r <= q[k - 1] /\ q[k - 1] <= r + 1 /\ q[k - 1] \in Int
  BY <1>1, <1>2, <1>5, <1>7
<1>11. q[k - 1] = r
  BY <1>5, <1>9, <1>10
<1> QED
  BY <1>1, <1>5, <1>7, <1>11

\* The groups are runs of the registers, every register is in one, and neighbours are
\* together in one, however often either of them comes.
LEMMA GroupsHold ==
  ASSUME NEW s \in Seq(Int)
  PROVE  /\ RegSort(s) \in Seq(Runs(Range(s)))
         /\ \A r \in Range(s) : Together(RegSort(s), r, r)
         /\ \A r \in Range(s) : r + 1 \in Range(s) => Together(RegSort(s), r, r + 1)
<1> DEFINE q == Sorted(s)
           S == Range(s)
           f == CHOOSE g : IsGroups(q, g)
           n == Len(q)
<1>1. RegSort(s) = f[n]
  BY DEF RegSort, IsGroups, Grown
<1>2. /\ q \in Seq(Int) /\ Range(q) = S
      /\ \A k, l \in DOMAIN q : k <= l => q[k] <= q[l]
  BY SortedUp
<1> HIDE DEF q
<1>3. IsGroups(q, f)
  BY <1>2, GroupsExist
<1> HIDE DEF f
<1>4. n \in Nat /\ DOMAIN q = 1 .. n /\ \A k \in 1 .. n : q[k] \in S
  <2>1. n \in Nat /\ DOMAIN q = 1 .. n
    BY <1>2
  <2>2. \A k \in DOMAIN q : q[k] \in Range(q)
    BY DEF Range
  <2> QED
    BY <1>2, <2>1, <2>2
<1>5. S \in SUBSET Int
  BY DEF Range
<1> HIDE DEF S
<1>6. q \in Seq(S)
  BY <1>2, <1>4
<1>7. f[0] = <<>> /\ \A i \in 1 .. n : f[i] = Grown(q, f[i - 1], i)
  <2>1. \A i \in 0 .. n : f[i] = IF i = 0 THEN <<>> ELSE Grown(q, f[i - 1], i)
    BY <1>3 DEF IsGroups
  <2> QED
    BY <1>4, <2>1
<1> DEFINE Holds(i) == /\ f[i] \in Seq(Runs(S))
                       /\ i > 0 => f[i] # <<>> /\ EndOf(EndOf(f[i])) = q[i]
                       /\ \A k \in 1 .. i : Together(f[i], q[k], q[k])
                       /\ \A k \in 1 .. i : k > 1 /\ q[k] = q[k - 1] + 1
                                              => Together(f[i], q[k - 1], q[k])
           T == {i \in 0 .. n : Holds(i)}
<1>8. 0 \in T
  <2>1. f[0] \in Seq(Runs(S))
    BY <1>7
  <2> QED
    BY <1>4, <2>1
<1>9. ASSUME NEW i \in 1 .. n, i - 1 \in T
      PROVE  i \in T
  <2> DEFINE res == f[i - 1]
             new == f[i]
  <2>1. new = Grown(q, res, i)
    BY <1>7
  <2>2. Holds(i - 1)
    BY <1>9
  <2>3. res \in Seq(Runs(S)) /\ (i > 1 => res # <<>> /\ EndOf(EndOf(res)) = q[i - 1])
    BY <2>2
  <2>4. \A k \in 1 .. i : k \in 1 .. i - 1 \/ k = i
    OBVIOUS
  <2>5. /\ \A k \in 1 .. i - 1 : Together(res, q[k], q[k])
        /\ \A k \in 1 .. i - 1 : k > 1 /\ q[k] = q[k - 1] + 1 => Together(res, q[k - 1], q[k])
    BY <2>2
  <2> HIDE DEF res, new, n
  <2>6. /\ new \in Seq(Runs(S)) /\ new # <<>> /\ EndOf(EndOf(new)) = q[i]
        /\ \A x, y : Together(res, x, y) => Together(new, x, y)
        /\ Together(new, q[i], q[i])
        /\ i > 1 /\ q[i] = q[i - 1] + 1 => Together(new, q[i - 1], q[i])
    <3>1. i \in 1 .. Len(q)
      BY DEF n
    <3> QED
      BY <1>5, <1>6, <2>1, <2>3, <3>1, GroupsGrow
  <2>7. \A k \in 1 .. i : Together(new, q[k], q[k])
    BY <2>4, <2>5, <2>6
  <2>8. \A k \in 1 .. i : k > 1 /\ q[k] = q[k - 1] + 1 => Together(new, q[k - 1], q[k])
    BY <2>4, <2>5, <2>6
  <2>9. Holds(i)
    BY <2>6, <2>7, <2>8 DEF new
  <2> QED
    BY <2>9
<1>10. Holds(n)
  <2>1. n \in T
    <3> HIDE DEF T
    <3>1. \A i \in 0 .. n : i \in T
      BY <1>4, <1>8, <1>9, Upward
    <3> QED
      BY <1>4, <3>1
  <2> QED
    BY <2>1
<1>11. ASSUME NEW r \in S
       PROVE  Together(f[n], r, r)
  <2>1. PICK k \in 1 .. n : q[k] = r
    BY <1>2, <1>4 DEF Range
  <2> QED
    BY <1>10, <2>1
<1>12. ASSUME NEW r \in S, r + 1 \in S
       PROVE  Together(f[n], r, r + 1)
  <2>1. PICK k \in 1 .. n : k > 1 /\ q[k - 1] = r /\ q[k] = r + 1
    BY <1>2, <1>12, Neighbours
  <2> QED
    BY <1>10, <2>1
<1> QED
  BY <1>1, <1>10, <1>11, <1>12 DEF S

\* single_sort: every register alone in its dataset.
LEMMA SinglesHold ==
  ASSUME NEW s \in Seq(Int)
  PROVE  /\ Singles(s) \in Seq(Runs(Range(s)))
         /\ \A r \in Range(s) : Together(Singles(s), r, r)
         /\ \A g \in DOMAIN Singles(s) : \A x, y \in Range(Singles(s)[g]) : x = y
<1>1. Len(s) \in Nat /\ DOMAIN s = 1 .. Len(s)
  OBVIOUS
<1>2. /\ DOMAIN Singles(s) = DOMAIN s
      /\ \A i \in DOMAIN s : Singles(s)[i] = <<s[i]>>
  BY DEF Singles
<1>3. ASSUME NEW i \in DOMAIN s
      PROVE  <<s[i]>> \in Runs(Range(s)) /\ Range(<<s[i]>>) = {s[i]}
  <2>1. s[i] \in Range(s) /\ Range(s) \in SUBSET Int
    BY DEF Range
  <2> QED
    BY <2>1, RunBegun
<1>4. Singles(s) \in Seq(Runs(Range(s)))
  BY <1>1, <1>3 DEF Singles
<1>5. ASSUME NEW r \in Range(s)
      PROVE  Together(Singles(s), r, r)
  <2>1. PICK i \in DOMAIN s : s[i] = r
    BY DEF Range
  <2> QED
    BY <1>2, <1>3, <2>1 DEF Together
<1>6. ASSUME NEW i \in DOMAIN s, NEW x \in Range(Singles(s)[i]), NEW y \in Range(Singles(s)[i])
      PROVE  x = y
  <2>1. Range(Singles(s)[i]) = {s[i]}
    BY <1>2, <1>3
  <2> QED
    BY <2>1
<1> QED
  BY <1>2, <1>4, <1>5, <1>6

-----------------------------------------------------------------------------
(* The datasets of a kind of register and the steps made of them.            *)

Datasets(vs, type, grouped) ==
  IF grouped THEN RegSort(Registers(vs, type)) ELSE Singles(Registers(vs, type))

FirstIn(vs, type, grouped, d) ==
  {i \in Mine(vs, type) :
     /\ Finds(Plugin(vs[i]), Datasets(vs, type, grouped)[d])
     /\ \A e \in 1 .. d - 1 : ~Finds(Plugin(vs[i]), Datasets(vs, type, grouped)[e])}

\* What is known of the values of a device.
LEMMA ValueTypes ==
  ASSUME NEW vs \in Seq(Values)
  PROVE  /\ Len(vs) \in Nat /\ DOMAIN vs = 1 .. Len(vs)
         /\ \A i \in DOMAIN vs :
              /\ vs[i] \in Values /\ vs[i].id \in Nat \ {0}
              /\ vs[i].parses \in BOOLEAN /\ vs[i].signed \in BOOLEAN
              /\ vs[i].registers \in Seq(Int) /\ Asks(vs[i]) \in Seq(Int)
              /\ Known(vs[i]) => Len(vs[i].registers) =
                   IF vs[i].decoding = "SatecDoubleRegistersInt32" THEN 2 ELSE 1
<1>1. Len(vs) \in Nat /\ DOMAIN vs = 1 .. Len(vs) /\ \A i \in DOMAIN vs : vs[i] \in Values
  OBVIOUS
<1>2. <<>> \in Seq(Int)
  OBVIOUS
<1>3. ASSUME NEW v \in Values
      PROVE  /\ v.id \in Nat \ {0} /\ v.parses \in BOOLEAN /\ v.signed \in BOOLEAN
             /\ v.registers \in Seq(Int) /\ Asks(v) \in Seq(Int)
             /\ Known(v) => Len(v.registers) =
                  IF v.decoding = "SatecDoubleRegistersInt32" THEN 2 ELSE 1
  <2>1. /\ v.id \in Nat \ {0} /\ {v.parses, v.signed} \subseteq BOOLEAN
        /\ v.registers \in Seq(Int)
        /\ Known(v) => Len(v.registers) =
             IF v.decoding = "SatecDoubleRegistersInt32" THEN 2 ELSE 1
    <3>1. \A w \in Values :
            /\ w.id \in Nat \ {0} /\ {w.parses, w.signed} \subseteq BOOLEAN
            /\ w.registers \in Seq(Int)
            /\ Known(w) => Len(w.registers) =
                 IF w.decoding = "SatecDoubleRegistersInt32" THEN 2 ELSE 1
      BY PollStepsAssumption
    <3> QED
      BY <3>1, Zenon
  <2>2. Asks(v) \in Seq(Int)
    BY <1>2, <2>1 DEF Asks
  <2> QED
    BY <2>1, <2>2, Zenon
<1> QED
  BY <1>1, <1>3

\* The registers of a kind are those some value of the kind asks for.
LEMMA AskedFor ==
  ASSUME NEW vs \in Seq(Values), NEW type
  PROVE  /\ Registers(vs, type) \in Seq(Int)
         /\ \A r : r \in Range(Registers(vs, type)) <=>
                     \E i \in Mine(vs, type) : r \in Range(Asks(vs[i]))
<1> DEFINE ss == [i \in DOMAIN vs |-> IF i \in Mine(vs, type) THEN Asks(vs[i]) ELSE <<>>]
           Z == Seq(Int)
<1>1. /\ DOMAIN ss = DOMAIN vs
      /\ \A i \in DOMAIN vs : ss[i] = IF i \in Mine(vs, type) THEN Asks(vs[i]) ELSE <<>>
  OBVIOUS
<1>2. Registers(vs, type) = FlattenSeq(ss)
  BY DEF Registers
<1>3. ss \in Seq(Z)
  <2>1. <<>> \in Z
    OBVIOUS
  <2>2. /\ Len(vs) \in Nat /\ DOMAIN vs = 1 .. Len(vs)
        /\ \A i \in DOMAIN vs : Asks(vs[i]) \in Z
    BY ValueTypes
  <2> HIDE DEF Z
  <2> QED
    BY <2>1, <2>2
<1> HIDE DEF ss
<1>4. /\ FlattenSeq(ss) \in Seq(Int)
      /\ \A x : x \in Range(FlattenSeq(ss)) <=> \E i \in DOMAIN ss : x \in Range(ss[i])
  BY <1>3, Flattened
<1>5. \A x : x \notin Range(<<>>)
  BY DEF Range
<1>6. Mine(vs, type) \subseteq DOMAIN vs
  BY DEF Mine
<1>7. \A r : (\E i \in DOMAIN ss : r \in Range(ss[i]))
               <=> \E i \in Mine(vs, type) : r \in Range(Asks(vs[i]))
  BY <1>1, <1>5, <1>6
<1> QED
  BY <1>2, <1>4, <1>7

\* Every dataset is a run of registers asked for; every register is in one, and
\* grouped every two consecutive ones are in one together.
LEMMA DatasetsHold ==
  ASSUME NEW vs \in Seq(Values), NEW type, NEW grouped \in BOOLEAN
  PROVE  LET ds == Datasets(vs, type, grouped)
             S == Range(Registers(vs, type))
         IN  /\ ds \in Seq(Runs(S)) /\ S \in SUBSET Int
             /\ \A r \in S : Together(ds, r, r)
             /\ grouped => \A r \in S : r + 1 \in S => Together(ds, r, r + 1)
<1>1. Registers(vs, type) \in Seq(Int)
  BY AskedFor
<1>2. Range(Registers(vs, type)) \in SUBSET Int
  BY <1>1 DEF Range
<1>3. CASE grouped
  BY <1>1, <1>2, <1>3, GroupsHold DEF Datasets
<1>4. CASE ~grouped
  BY <1>1, <1>2, <1>4, SinglesHold DEF Datasets
<1> QED
  BY <1>3, <1>4

\* Register by register no dataset holds two registers.
LEMMA SinglesAlone ==
  ASSUME NEW vs \in Seq(Values), NEW type, NEW grouped \in BOOLEAN, ~grouped,
         NEW d \in DOMAIN Datasets(vs, type, grouped)
  PROVE  \A x, y \in Range(Datasets(vs, type, grouped)[d]) : x = y
<1>1. Registers(vs, type) \in Seq(Int)
  BY AskedFor
<1>2. Datasets(vs, type, grouped) = Singles(Registers(vs, type))
  BY DEF Datasets
<1> QED
  BY <1>1, <1>2, SinglesHold

\* The steps of a kind of register.
LEMMA StepsShape ==
  ASSUME NEW vs \in Seq(Values), NEW grouped \in BOOLEAN, NEW type \in Range(RegTypes)
  PROVE  LET ds == Datasets(vs, type, grouped)
             steps == PoolOf(vs, grouped)[type]
         IN  /\ Len(steps) \in Nat /\ Len(steps) = Len(ds)
             /\ DOMAIN steps = 1 .. Len(steps) /\ DOMAIN ds = DOMAIN steps
             /\ \A d \in DOMAIN ds :
                  /\ steps[d].start = ds[d][1] % (MaxWord + 1)
                  /\ steps[d].length = Len(ds[d]) % (MaxWord + 1)
                  /\ steps[d].values = {Placed(i, vs[i], ds[d]) : i \in FirstIn(vs, type, grouped, d)}
<1> DEFINE ds == Datasets(vs, type, grouped)
           steps == PoolOf(vs, grouped)[type]
           R == Runs(Range(Registers(vs, type)))
<1>1. ds \in Seq(R)
  BY DatasetsHold
<1>2. steps = Laid(vs, Mine(vs, type), ds)
  BY DEF PoolOf, StepsOf, Datasets
<1>3. Laid(vs, Mine(vs, type), ds) =
        [d \in DOMAIN ds |->
           ReadStep(ds[d], {Placed(i, vs[i], ds[d]) : i \in FirstIn(vs, type, grouped, d)})]
  BY DEF Laid, FirstIn
<1> HIDE DEF steps, ds, R
<1>4. Len(ds) \in Nat /\ DOMAIN ds = 1 .. Len(ds)
  BY <1>1
<1>5. DOMAIN steps = DOMAIN ds
  BY <1>2, <1>3
<1>6. Len(steps) = Len(ds)
  BY <1>2, <1>3, <1>4
<1>7. ASSUME NEW d \in DOMAIN ds
      PROVE  /\ steps[d].start = ds[d][1] % (MaxWord + 1)
             /\ steps[d].length = Len(ds[d]) % (MaxWord + 1)
             /\ steps[d].values = {Placed(i, vs[i], ds[d]) : i \in FirstIn(vs, type, grouped, d)}
  <2>1. steps[d] =
          ReadStep(ds[d], {Placed(i, vs[i], ds[d]) : i \in FirstIn(vs, type, grouped, d)})
    BY <1>2, <1>3
  <2> QED
    BY <2>1 DEF ReadStep
<1> QED
  BY <1>4, <1>5, <1>6, <1>7 DEF ds, steps

\* No value is in two steps.
LEMMA OnePlace ==
  ASSUME NEW vs, NEW grouped, NEW type, NEW d \in Nat, NEW e \in Nat,
         d > 0, e > 0,
         NEW i \in FirstIn(vs, type, grouped, d), i \in FirstIn(vs, type, grouped, e)
  PROVE  d = e
<1>1. ASSUME NEW a \in Nat, NEW b \in Nat, a > 0, a < b,
             i \in FirstIn(vs, type, grouped, a), i \in FirstIn(vs, type, grouped, b)
      PROVE  FALSE
  <2>1. a \in 1 .. b - 1
    BY <1>1
  <2> QED
    BY <1>1, <2>1 DEF FirstIn
<1> QED
  BY <1>1

\* A value whose registers some dataset holds is in a step.
LEMMA HasPlace ==
  ASSUME NEW vs, NEW grouped, NEW type, NEW n \in Nat, NEW i \in Mine(vs, type),
         NEW c \in 1 .. n, Finds(Plugin(vs[i]), Datasets(vs, type, grouped)[c])
  PROVE  \E d \in 1 .. n : i \in FirstIn(vs, type, grouped, d)
<1> DEFINE D == {d \in 1 .. n : Finds(Plugin(vs[i]), Datasets(vs, type, grouped)[d])}
<1>1. D \in SUBSET Nat /\ D # {}
  OBVIOUS
<1>2. PICK d \in D : \A e \in D : d <= e
  <2> HIDE DEF D
  <2> QED
    BY <1>1, LeastNat
<1>3. ASSUME NEW e \in 1 .. d - 1
      PROVE  ~Finds(Plugin(vs[i]), Datasets(vs, type, grouped)[e])
  <2>1. d \in 1 .. n /\ e \in 1 .. n /\ ~(d <= e)
    OBVIOUS
  <2> QED
    BY <1>2, <2>1
<1> QED
  BY <1>2, <1>3 DEF FirstIn

\* The registers are r, or r and its neighbour.
OneOrPair(q, r) == Range(q) = {r} \/ (r + 1 \in Range(q) /\ Range(q) = {r, r + 1})

\* A value has one register or two; adjacent ones are the same or neighbours.
LEMMA OneOrTwo ==
  ASSUME NEW q \in Seq(Int), Len(q) \in {1, 2}
  PROVE  /\ Adjacent(q) => \E r \in Range(q) : OneOrPair(q, r)
         /\ OneRegister(q) => \E r \in Range(q) : Range(q) = {r}
<1>1. DOMAIN q = 1 .. Len(q) /\ \A k \in DOMAIN q : q[k] \in Int
  OBVIOUS
<1>2. 1 \in DOMAIN q /\ q[1] \in Range(q) /\ q[1] \in Int
  BY <1>1 DEF Range
<1>3. CASE Len(q) = 1
  <2>1. DOMAIN q = {1} /\ Range(q) = {q[1]}
    BY <1>1, <1>3 DEF Range
  <2>2. OneRegister(q)
    BY <2>1 DEF OneRegister
  <2>3. OneOrPair(q, q[1])
    BY <2>1 DEF OneOrPair
  <2> QED
    BY <1>2, <2>1, <2>2, <2>3
<1>4. CASE Len(q) = 2
  <2>1. DOMAIN q = {1, 2}
    BY <1>1, <1>4
  <2>2. Range(q) = {q[1], q[2]} /\ q[2] \in Range(q) /\ q[2] \in Int
    BY <1>1, <2>1 DEF Range
  <2>3. OneRegister(q) <=> q[1] = q[2]
    BY <2>1 DEF OneRegister
  <2>4. Adjacent(q) => q[1] = q[2] \/ q[2] = q[1] + 1 \/ q[1] = q[2] + 1
    <3> SUFFICES ASSUME Adjacent(q)
                 PROVE  q[1] = q[2] \/ q[2] = q[1] + 1 \/ q[1] = q[2] + 1
      OBVIOUS
    <3>1. q[1] - q[2] \in -1 .. 1
      BY <2>1 DEF Adjacent
    <3> QED
      BY <1>2, <2>2, <3>1
  <2>5. Adjacent(q) => \E r \in Range(q) : OneOrPair(q, r)
    <3>1. CASE q[1] = q[2]
      BY <1>2, <2>2, <3>1 DEF OneOrPair
    <3>2. CASE q[2] = q[1] + 1
      BY <1>2, <2>2, <3>2 DEF OneOrPair
    <3>3. CASE q[1] = q[2] + 1
      BY <1>2, <2>2, <3>3 DEF OneOrPair
    <3> QED
      BY <2>4, <3>1, <3>2, <3>3
  <2>6. OneRegister(q) => \E r \in Range(q) : Range(q) = {r}
    BY <1>2, <2>2, <2>3
  <2> QED
    BY <2>5, <2>6
<1> QED
  BY <1>3, <1>4

\* A value that can be read has its place in a step.
LEMMA Serves ==
  ASSUME NEW vs \in Seq(Values), NEW grouped \in BOOLEAN, NEW type \in Range(RegTypes),
         NEW i \in Mine(vs, type), vs[i].parses,
         (grouped /\ Adjacent(vs[i].registers)) \/ (~grouped /\ OneRegister(vs[i].registers))
  PROVE  \E d \in 1 .. Len(PoolOf(vs, grouped)[type]) : i \in FirstIn(vs, type, grouped, d)
<1> DEFINE ds == Datasets(vs, type, grouped)
           S == Range(Registers(vs, type))
           q == vs[i].registers
           n == Len(PoolOf(vs, grouped)[type])
<1>1. /\ i \in DOMAIN vs /\ Known(vs[i]) /\ q \in Seq(Int) /\ Len(q) \in {1, 2}
      /\ Plugin(vs[i]).registers = q
  <2>1. i \in DOMAIN vs /\ Known(vs[i])
    BY DEF Mine
  <2>2. q \in Seq(Int) /\ Len(q) = IF vs[i].decoding = "SatecDoubleRegistersInt32" THEN 2 ELSE 1
    BY <2>1, ValueTypes
  <2>3. Plugin(vs[i]).registers = q
    BY DEF Plugin
  <2> QED
    BY <2>1, <2>2, <2>3
<1>2. Range(q) \subseteq S
  <2>1. Asks(vs[i]) = q
    BY DEF Asks
  <2> QED
    BY <2>1, AskedFor
<1>3. /\ \A r \in S : Together(ds, r, r)
      /\ grouped => \A r \in S : r + 1 \in S => Together(ds, r, r + 1)
  BY DatasetsHold
<1>4. n \in Nat /\ DOMAIN ds = 1 .. n
  BY StepsShape
<1> HIDE DEF n, ds, S, q
<1>5. \E r \in Range(q) : Range(q) = {r} \/ (grouped /\ OneOrPair(q, r))
  <2>1. (grouped /\ Adjacent(q)) \/ (~grouped /\ OneRegister(q))
    BY DEF q
  <2>2. /\ Adjacent(q) => \E r \in Range(q) : OneOrPair(q, r)
        /\ OneRegister(q) => \E r \in Range(q) : Range(q) = {r}
    BY <1>1, OneOrTwo
  <2> QED
    BY <2>1, <2>2
<1>6. PICK x, y : Range(q) = {x, y} /\ Together(ds, x, y)
  <2>1. PICK r \in Range(q) : Range(q) = {r} \/ (grouped /\ OneOrPair(q, r))
    BY <1>5
  <2>2. CASE Range(q) = {r}
    <3>1. Range(q) = {r, r} /\ Together(ds, r, r)
      BY <1>2, <1>3, <2>2
    <3> QED
      BY <3>1
  <2>3. CASE grouped /\ r + 1 \in Range(q) /\ Range(q) = {r, r + 1}
    BY <1>2, <1>3, <2>3
  <2> QED
    BY <2>1, <2>2, <2>3 DEF OneOrPair
<1>7. PICK c \in 1 .. n : Range(q) \subseteq Range(ds[c])
  BY <1>4, <1>6 DEF Together
<1>8. Finds(Plugin(vs[i]), ds[c])
  BY <1>1, <1>7 DEF Finds
<1> QED
  <2>1. \E d \in 1 .. n : i \in FirstIn(vs, type, grouped, d)
    BY <1>4, <1>7, <1>8, HasPlace DEF ds
  <2> QED
    BY <2>1 DEF n

\* Register by register, a value of two registers is in no step.
LEMMA NeverServed ==
  ASSUME NEW vs \in Seq(Values), NEW grouped \in BOOLEAN, NEW type \in Range(RegTypes),
         NEW i \in Mine(vs, type), vs[i].parses, ~grouped, ~OneRegister(vs[i].registers),
         NEW d \in DOMAIN Datasets(vs, type, grouped)
  PROVE  i \notin FirstIn(vs, type, grouped, d)
<1>1. /\ i \in DOMAIN vs /\ Known(vs[i])
  BY DEF Mine
<1>2. vs[i].registers \in Seq(Int) /\ Plugin(vs[i]).registers = vs[i].registers
  BY <1>1, ValueTypes DEF Plugin
<1>3. \A x, y \in Range(Datasets(vs, type, grouped)[d]) : x = y
  BY SinglesAlone
<1>4. PICK k \in DOMAIN vs[i].registers, l \in DOMAIN vs[i].registers :
        vs[i].registers[k] # vs[i].registers[l]
  BY DEF OneRegister
<1>5. vs[i].registers[k] \in Range(vs[i].registers) /\ vs[i].registers[l] \in Range(vs[i].registers)
  BY DEF Range
<1>6. ~Finds(Plugin(vs[i]), Datasets(vs, type, grouped)[d])
  BY <1>2, <1>3, <1>4, <1>5 DEF Finds
<1> QED
  BY <1>6 DEF FirstIn

-----------------------------------------------------------------------------
(* What a value takes out of an answer.                                      *)

\* Ranges by their bounds, which the provers handle for a name and not for 65535.
LEMMA UpToMax ==
  ASSUME NEW m \in Int
  PROVE  \A w : w \in 0 .. m <=> w \in Int /\ 0 <= w /\ w <= m
OBVIOUS

\* u16::MAX.
LEMMA MaxWordIs == MaxWord = 65535
BY DEF MaxWord

\* A number that fits in 16 bits is not cut off.
LEMMA SmallMod ==
  ASSUME NEW a \in Int, 0 <= a, a <= MaxWord + 1
  PROVE  /\ a <= MaxWord => a % (MaxWord + 1) = a
         /\ a % (MaxWord + 1) > 0 => a % (MaxWord + 1) = a
<1>1. a <= 65536
  BY MaxWordIs
<1>2. a <= 65535 => a % 65536 = a
  OBVIOUS
<1>3. a % 65536 > 0 => a % 65536 = a
  <2>1. CASE a = 65536
    BY <2>1
  <2>2. CASE a <= 65535
    BY <1>2, <2>2
  <2> QED
    BY <1>1, <2>1, <2>2
<1>4. MaxWord + 1 = 65536
  BY MaxWordIs
<1> QED
  BY <1>2, <1>3, <1>4, MaxWordIs

\* The numbers of 16 bits.
LEMMA WordRange ==
  MaxWord \in Int /\ \A w : w \in 0 .. MaxWord <=> w \in Int /\ 0 <= w /\ w <= MaxWord
<1>1. MaxWord \in Int
  BY MaxWordIs
<1> QED
  BY <1>1, UpToMax

\* The values a bit can have.
LEMMA BitValues ==
  ASSUME NEW b \in 0 .. 15
  PROVE  BitValue[b + 1] \in {1, 2, 4, 8, 16, 32, 64, 128, 256, 512, 1024, 2048, 4096, 8192, 16384,
                              32768}
BY DEF BitValue

\* The bit of a word, by shifting it down and by cutting off what is above.
LEMMA BitOfWord ==
  ASSUME NEW w \in Nat, NEW b \in 0 .. 15
  PROVE  (w \div BitValue[b + 1]) % 2 = (w % (2 * BitValue[b + 1])) \div BitValue[b + 1]
<1> DEFINE p == BitValue[b + 1]
<1>1. p \in {1, 2, 4, 8, 16, 32, 64, 128, 256, 512, 1024, 2048, 4096, 8192, 16384, 32768}
  BY BitValues
<1> HIDE DEF p
<1>2. ASSUME p \in {1, 2, 4, 8}
      PROVE  (w \div p) % 2 = (w % (2 * p)) \div p
  <2>1. CASE p = 1
    BY <2>1
  <2>2. CASE p = 2
    BY <2>2
  <2>3. CASE p = 4
    BY <2>3
  <2>4. CASE p = 8
    BY <2>4
  <2> QED
    BY <1>2, <2>1, <2>2, <2>3, <2>4
<1>3. ASSUME p \in {16, 32, 64, 128}
      PROVE  (w \div p) % 2 = (w % (2 * p)) \div p
  <2>1. CASE p = 16
    BY <2>1
  <2>2. CASE p = 32
    BY <2>2
  <2>3. CASE p = 64
    BY <2>3
  <2>4. CASE p = 128
    BY <2>4
  <2> QED
    BY <1>3, <2>1, <2>2, <2>3, <2>4
<1>4. ASSUME p \in {256, 512, 1024, 2048}
      PROVE  (w \div p) % 2 = (w % (2 * p)) \div p
  <2>1. CASE p = 256
    BY <2>1
  <2>2. CASE p = 512
    BY <2>2
  <2>3. CASE p = 1024
    BY <2>3
  <2>4. CASE p = 2048
    BY <2>4
  <2> QED
    BY <1>4, <2>1, <2>2, <2>3, <2>4
<1>5. ASSUME p \in {4096, 8192, 16384, 32768}
      PROVE  (w \div p) % 2 = (w % (2 * p)) \div p
  <2>1. CASE p = 4096
    BY <2>1
  <2>2. CASE p = 8192
    BY <2>2
  <2>3. CASE p = 16384
    BY <2>3
  <2>4. CASE p = 32768
    BY <2>4
  <2> QED
    BY <1>5, <2>1, <2>2, <2>3, <2>4
<1>6. (w \div p) % 2 = (w % (2 * p)) \div p
  BY <1>1, <1>2, <1>3, <1>4, <1>5
<1> QED
  BY <1>6 DEF p

\* A register of a run is found at its position.
LEMMA PositionIn ==
  ASSUME NEW S \in SUBSET Int, NEW run \in Runs(S), NEW r \in Range(run)
  PROVE  /\ Position(r, run) \in Nat /\ Position(r, run) < Len(run)
         /\ Position(r, run) + 1 \in DOMAIN run /\ run[Position(r, run) + 1] = r
<1> DEFINE p == CHOOSE i \in DOMAIN run : run[i] = r
<1>1. Len(run) \in Nat /\ DOMAIN run = 1 .. Len(run)
  BY DEF Runs
<1>2. \E i \in DOMAIN run : run[i] = r
  BY DEF Range
<1>3. p \in DOMAIN run /\ run[p] = r
  BY <1>2
<1>4. Position(r, run) = p - 1
  BY DEF Position
<1> HIDE DEF p
<1>5. Position(r, run) + 1 = p
  BY <1>1, <1>3, <1>4
<1> QED
  BY <1>1, <1>3, <1>4, <1>5

\* The registers asked for are addresses.
LEMMA AddressesFit ==
  ASSUME SettingsFit, NEW vs \in Seq(Values), NEW type, NEW r \in Range(Registers(vs, type))
  PROVE  r \in 0 .. MaxWord
<1>1. PICK i \in Mine(vs, type) : r \in Range(Asks(vs[i]))
  BY AskedFor
<1>2. i \in DOMAIN vs /\ Known(vs[i]) /\ vs[i] \in Values
  BY <1>1, ValueTypes DEF Mine
<1>3. CASE vs[i].parses
  <2>1. r \in Range(vs[i].registers)
    BY <1>1, <1>3 DEF Asks
  <2> QED
    BY <1>2, <1>3, <2>1 DEF SettingsFit
<1>4. CASE ~vs[i].parses
  <2>1. r \in Range(<<>>)
    BY <1>1, <1>4 DEF Asks
  <2> QED
    BY <2>1 DEF Range
<1> QED
  BY <1>3, <1>4

\* The answer to a step holds the words of the registers of its dataset.
LEMMA AnswerHolds ==
  ASSUME SettingsFit, NEW vs \in Seq(Values), NEW grouped \in BOOLEAN,
         NEW type \in Range(RegTypes), NEW d \in DOMAIN Datasets(vs, type, grouped),
         PoolOf(vs, grouped)[type][d].length > 0
  PROVE  LET run == Datasets(vs, type, grouped)[d]
             answer == Answer(type, PoolOf(vs, grouped)[type][d])
         IN  /\ Len(answer) = Len(run) /\ DOMAIN answer = DOMAIN run
             /\ \A k \in DOMAIN run : run[k] \in 0 .. MaxWord /\ answer[k] = Memory[type][run[k]]
<1> DEFINE S == Range(Registers(vs, type))
           run == Datasets(vs, type, grouped)[d]
           step == PoolOf(vs, grouped)[type][d]
           answer == Answer(type, step)
           n == Len(run)
<1>1. Datasets(vs, type, grouped) \in Seq(Runs(S)) /\ S \in SUBSET Int
  BY DatasetsHold
<1>2. run \in Runs(S)
  BY <1>1
<1>3. step.start = run[1] % (MaxWord + 1) /\ step.length = n % (MaxWord + 1) /\ step.length > 0
  BY StepsShape
<1>4. \A r \in S : r \in 0 .. MaxWord
  BY AddressesFit
<1>5. answer = [i \in 1 .. step.length |-> Memory[type][step.start + i - 1]]
  BY DEF Answer
<1> HIDE DEF S, run, step, answer
<1>6. /\ run \in Seq(S) /\ n > 0 /\ n \in Nat /\ DOMAIN run = 1 .. n
      /\ \A k \in 1 .. n : run[k] = run[1] + k - 1
      /\ \A k \in 1 .. n : run[k] \in S
  <2>1. run \in Seq(S) /\ n > 0 /\ \A k \in DOMAIN run : run[k] = run[1] + k - 1
    BY <1>2 DEF Runs
  <2>2. n \in Nat /\ DOMAIN run = 1 .. n /\ \A k \in DOMAIN run : run[k] \in S
    BY <2>1
  <2> QED
    BY <2>1, <2>2
<1> HIDE DEF n
<1>7. \A k \in 1 .. n : run[k] \in Int /\ 0 <= run[k] /\ run[k] <= MaxWord
  <2>1. \A k \in 1 .. n : run[k] \in 0 .. MaxWord
    BY <1>4, <1>6
  <2> QED
    BY <2>1, WordRange, Zenon
<1>8. 1 \in 1 .. n /\ n \in 1 .. n
  BY <1>6
<1>9. /\ run[1] \in Int /\ 0 <= run[1] /\ run[1] <= MaxWord
      /\ run[1] + n - 1 <= MaxWord
  <2>1. run[n] = run[1] + n - 1
    BY <1>6, <1>8
  <2> QED
    BY <1>7, <1>8, <2>1
<1>10. step.start = run[1] /\ step.length = n
  <2>1. run[1] % (MaxWord + 1) = run[1]
    BY <1>9, SmallMod, MaxWordIs
  <2>2. n \in Int /\ 0 <= n /\ n <= MaxWord + 1
    BY <1>6, <1>9, MaxWordIs, SMTT(30)
  <2>3. n % (MaxWord + 1) > 0 => n % (MaxWord + 1) = n
    BY <2>2, SmallMod
  <2> QED
    BY <1>3, <2>1, <2>3
<1>11. answer = [i \in 1 .. n |-> Memory[type][run[1] + i - 1]]
  BY <1>5, <1>10
<1>12. \A k \in 1 .. n : answer[k] = Memory[type][run[k]]
  BY <1>6, <1>11
<1>13. Len(answer) = n /\ DOMAIN answer = 1 .. n
  BY <1>6, <1>11
<1>14. \A k \in 1 .. n : run[k] \in 0 .. MaxWord
  BY <1>4, <1>6
<1> QED
  BY <1>6, <1>12, <1>13, <1>14 DEF run, answer, step, n

\* A word of the device is a number of 16 bits.
LEMMA WordsOf ==
  ASSUME NEW type \in Range(RegTypes), NEW r \in 0 .. MaxWord
  PROVE  Memory[type][r] \in Nat
<1> DEFINE W == 0 .. MaxWord
<1>1. Memory \in [Range(RegTypes) -> [W -> W]]
  BY PollStepsAssumption
<1>2. r \in W /\ \A w \in W : w \in Nat
  <2>1. \A w \in W : w \in Int /\ 0 <= w
    BY WordRange, Zenon
  <2> HIDE DEF W
  <2>2. \A w \in W : w \in Nat
    BY <2>1
  <2> QED
    BY <2>2 DEF W
<1> HIDE DEF W
<1>3. Memory[type][r] \in W
  BY <1>1, <1>2
<1> QED
  BY <1>2, <1>3

\* What the decoding of the words of its registers gives is what a value must read.
LEMMA DecodesRight ==
  ASSUME SettingsFit, NEW v \in Values, Known(v), v.parses, ~SignedSatec(v),
         \A k \in DOMAIN v.registers : OwnWords(v)[k] \in Nat
  PROVE  Decode(Plugin(v), OwnWords(v)) = Meant(v)
<1> DEFINE q == v.registers
           words == OwnWords(v)
           word(k) == words[k]
<1> SUFFICES Decode(Plugin(v), words) = Meant(v)
  OBVIOUS
<1>1. /\ q \in Seq(Int) /\ v.signed \in BOOLEAN
      /\ Len(q) = IF v.decoding = "SatecDoubleRegistersInt32" THEN 2 ELSE 1
      /\ v.bit \in 0 .. 15
  <2>1. /\ q \in Seq(Int) /\ {v.signed} \subseteq BOOLEAN
        /\ Len(q) = IF v.decoding = "SatecDoubleRegistersInt32" THEN 2 ELSE 1
    BY PollStepsAssumption, Zenon
  <2> QED
    BY <2>1 DEF SettingsFit
<1>2. /\ Plugin(v).decoding = v.decoding /\ Plugin(v).signed = v.signed /\ Plugin(v).bit = v.bit
  BY DEF Plugin
<1>3. 1 \in DOMAIN q /\ words[1] = word(1) /\ words[1] \in Nat
  <2>1. 1 \in DOMAIN q
    BY <1>1
  <2> QED
    BY <2>1 DEF q
<1>7. /\ words = [k \in DOMAIN q |-> words[k]]
      /\ \A k \in DOMAIN q : words[k] \in Nat
  BY DEF OwnWords
<1> HIDE DEF q, words
<1>4. CASE v.decoding = "ComaShift"
  <2>1. Decode(Plugin(v), words) = <<0, Int16(words[1])>>
    BY <1>2, <1>4 DEF Decode
  <2>2. Meant(v) = <<0, IF word(1) < 32768 THEN word(1) ELSE word(1) - 65536>>
    BY <1>4 DEF Meant, words
  <2> HIDE DEF word
  <2>3. Int16(words[1]) = IF word(1) < 32768 THEN word(1) ELSE word(1) - 65536
    BY <1>3 DEF Int16
  <2> QED
    BY <2>1, <2>2, <2>3
<1>5. CASE v.decoding = "BitInWord"
  <2>1. Decode(Plugin(v), words) = <<0, (words[1] \div BitValue[v.bit + 1]) % 2>>
    BY <1>2, <1>5 DEF Decode
  <2>2. Meant(v) = <<0, (word(1) % (2 * BitValue[v.bit + 1])) \div BitValue[v.bit + 1]>>
    BY <1>5 DEF Meant, words
  <2> HIDE DEF word
  <2>3. (words[1] \div BitValue[v.bit + 1]) % 2
          = (words[1] % (2 * BitValue[v.bit + 1])) \div BitValue[v.bit + 1]
    BY <1>1, <1>3, BitOfWord
  <2> QED
    BY <1>3, <2>1, <2>2, <2>3, Zenon
<1>6. CASE v.decoding = "SatecDoubleRegistersInt32"
  <2>1. DOMAIN q = {1, 2} /\ Len(q) = 2
    BY <1>1, <1>6
  <2>2. words[2] = word(2) /\ words[2] \in Nat
    BY <1>7, <2>1
  <2>3. ~v.signed
    BY <1>6 DEF SignedSatec
  <2>4. Decode(Plugin(v), words) = Meant(v)
    <3>1. Decode(Plugin(v), words) = words
      BY <1>1, <1>2, <1>6, <2>3 DEF Decode
    <3>2. Meant(v) = <<word(1), word(2)>>
      BY <1>6 DEF Meant, words
    <3>3. words = [k \in DOMAIN q |-> words[k]]
      BY <1>7
    <3> HIDE DEF word
    <3>4. words = [k \in 1 .. 2 |-> words[k]]
      <4>1. DOMAIN q = 1 .. 2
        BY <2>1
      <4> QED
        BY <3>3, <4>1
    <3>5. words = <<words[1], words[2]>>
      BY <3>4
    <3> QED
      BY <1>3, <2>2, <3>1, <3>2, <3>5
  <2> QED
    BY <2>4
<1> QED
  BY <1>4, <1>5, <1>6 DEF Known

\* A value in a step that answered finds its registers in the answer and decodes the
\* words of its own; what it makes of them is what it must read.
LEMMA GoodValue ==
  ASSUME SettingsFit, NEW vs \in Seq(Values), NEW grouped \in BOOLEAN,
         NEW type \in Range(RegTypes), NEW d \in DOMAIN Datasets(vs, type, grouped),
         PoolOf(vs, grouped)[type][d].length > 0, NEW i \in FirstIn(vs, type, grouped, d)
  PROVE  LET u == Placed(i, vs[i], Datasets(vs, type, grouped)[d])
             answer == Answer(type, PoolOf(vs, grouped)[type][d])
         IN  /\ Fits(u, answer)
             /\ vs[i].parses =>
                  /\ GetValue(u, answer).number = Decode(Plugin(vs[i]), OwnWords(vs[i]))
                  /\ ~SignedSatec(vs[i]) => GetValue(u, answer).number = Meant(vs[i])
<1> DEFINE run == Datasets(vs, type, grouped)[d]
           S == Range(Registers(vs, type))
           u == Placed(i, vs[i], run)
           answer == Answer(type, PoolOf(vs, grouped)[type][d])
           q == Plugin(vs[i]).registers
           words == [k \in DOMAIN u.pos |-> answer[u.pos[k] + 1]]
<1>1. /\ i \in DOMAIN vs /\ Known(vs[i]) /\ Plugin(vs[i]).type = type /\ vs[i] \in Values
      /\ Range(q) \subseteq Range(run)
  BY ValueTypes DEF FirstIn, Mine, Finds
<1>2. S \in SUBSET Int /\ run \in Runs(S)
  <2>1. S \in SUBSET Int /\ Datasets(vs, type, grouped) \in Seq(Runs(S))
    BY DatasetsHold
  <2> QED
    BY <2>1
<1>3. /\ Len(answer) = Len(run)
      /\ \A k \in DOMAIN run : run[k] \in 0 .. MaxWord /\ answer[k] = Memory[type][run[k]]
  BY AnswerHolds
<1>4. /\ DOMAIN u.pos = DOMAIN q /\ u.plugin = Plugin(vs[i])
      /\ \A k \in DOMAIN q : u.pos[k] = Position(q[k], run)
  BY DEF Placed
<1>5. GetValue(u, answer).number = Decode(u.plugin, words)
  BY DEF GetValue
<1>6. /\ words = [k \in DOMAIN u.pos |-> words[k]] /\ DOMAIN words = DOMAIN u.pos
      /\ \A k \in DOMAIN u.pos : words[k] = answer[u.pos[k] + 1]
  OBVIOUS
<1> HIDE DEF run, S, u, answer, q, words
<1>7. ASSUME NEW k \in DOMAIN q
      PROVE  /\ u.pos[k] < Len(answer)
             /\ answer[u.pos[k] + 1] = Memory[type][q[k]] /\ q[k] \in 0 .. MaxWord
  <2>1. q[k] \in Range(run)
    BY <1>1 DEF Range
  <2>2. /\ Position(q[k], run) < Len(run) /\ Position(q[k], run) + 1 \in DOMAIN run
        /\ run[Position(q[k], run) + 1] = q[k]
    BY <1>2, <2>1, PositionIn
  <2>3. u.pos[k] = Position(q[k], run)
    BY <1>4
  <2> QED
    BY <1>3, <2>2, <2>3, Zenon
<1>8. Fits(u, answer)
  BY <1>4, <1>7 DEF Fits
<1>9. ASSUME vs[i].parses
      PROVE  /\ GetValue(u, answer).number = Decode(Plugin(vs[i]), OwnWords(vs[i]))
             /\ ~SignedSatec(vs[i]) => GetValue(u, answer).number = Meant(vs[i])
  <2>1. q = vs[i].registers /\ type = CheckType(vs[i].type)
    BY <1>1, <1>9 DEF q, Plugin
  <2>2. \A k \in DOMAIN q : words[k] = Memory[type][q[k]] /\ words[k] \in Nat
    <3>1. ASSUME NEW k \in DOMAIN q
          PROVE  words[k] = Memory[type][q[k]] /\ words[k] \in Nat
      <4>1. words[k] = answer[u.pos[k] + 1]
        BY <1>4, <1>6
      <4>2. words[k] = Memory[type][q[k]] /\ q[k] \in 0 .. MaxWord
        BY <1>7, <4>1, Zenon
      <4> QED
        BY <4>2, WordsOf, Zenon
    <3> QED
      BY <3>1
  <2>3. DOMAIN words = DOMAIN q /\ words = [k \in DOMAIN q |-> words[k]]
    BY <1>4, <1>6
  <2>4. OwnWords(vs[i]) = [k \in DOMAIN q |-> Memory[type][q[k]]]
    BY <2>1 DEF OwnWords
  <2>5. words = OwnWords(vs[i])
    BY <2>2, <2>3, <2>4
  <2>6. GetValue(u, answer).number = Decode(Plugin(vs[i]), OwnWords(vs[i]))
    BY <1>4, <1>5, <2>5
  <2>7. ASSUME ~SignedSatec(vs[i])
        PROVE  Decode(Plugin(vs[i]), OwnWords(vs[i])) = Meant(vs[i])
    <3>1. \A k \in DOMAIN vs[i].registers : OwnWords(vs[i])[k] \in Nat
      BY <2>1, <2>2, <2>5
    <3> QED
      BY <1>1, <1>9, <2>7, <3>1, DecodesRight
  <2> QED
    BY <2>6, <2>7
<1> QED
  BY <1>8, <1>9 DEF u, answer, run

-----------------------------------------------------------------------------
(* The inductive invariant of a poll.                                        *)

\* The steps of a pool by the cursor that reads them, and which of them a poll has
\* behind it.
Spots(pl) == {p \in [type : 1 .. 4, index : Nat] : p.index < Len(pl[RegTypes[p.type]])}
StepAt(pl, p) == pl[RegTypes[p.type]][p.index + 1]
Passed(p, c) == p.type < c.type \/ (p.type = c.type /\ p.index < c.index)

\* A broken step is one of the pool; it was broken before the poll or in it.
Marks(pl, c, br, sl) ==
  sl \subseteq br /\ \A p \in br : p \in Spots(pl) /\ (p \in sl \/ Passed(p, c))

\* What the unit u of the step at p can have given.
MeasureOf(pl, p, u, r) ==
  \/ r = FailValue(u)
  \/ StepAt(pl, p).length > 0 /\ r = GetValue(u, Answer(RegTypes[p.type], StepAt(pl, p)))

\* Every measure comes of one value of a step that was read, and none has two.
Sound(pl, c, ms, sl) ==
  /\ \A m \in ms :
       /\ m.at \in Spots(pl) /\ Passed(m.at, c) /\ m.at \notin sl
       /\ \E u \in StepAt(pl, m.at).values :
            m.value = u.value /\ MeasureOf(pl, m.at, u, m.measure)
  /\ \A m, n \in ms : m.at = n.at /\ m.value = n.value => m = n

\* Every value of a step that was read has its measure.
Full(pl, c, ms, sl) ==
  \A p \in Spots(pl) : Passed(p, c) /\ p \notin sl =>
    \A u \in StepAt(pl, p).values : \E m \in ms : m.at = p /\ m.value = u.value

Settings(vs, grouped, pl) ==
  /\ vs \in Seq(Values) /\ grouped \in BOOLEAN /\ pl = PoolOf(vs, grouped)
  /\ \A i, j \in DOMAIN vs : vs[i].id = vs[j].id => i = j

CursorIn(pl, c) ==
  c \in [type : 1 .. 4, index : Nat] /\ c.index <= Len(pl[RegTypes[c.type]])

AtEnd(pl, c) == c.type = 4 /\ c.index = Len(pl[RegTypes[4]])

StepsInv ==
  /\ Settings(configured, by_group, pool)
  /\ CursorIn(pool, cursor)
  /\ stage = "done" => AtEnd(pool, cursor)
  /\ Marks(pool, cursor, broken, silent)
  /\ Sound(pool, cursor, measures, silent)
  /\ stage # "panicked" => Full(pool, cursor, measures, silent)

\* The four kinds of register.
LEMMA Kinds ==
  /\ Len(RegTypes) = 4
  /\ RegTypes \in [1 .. 4 -> Range(RegTypes)]
  /\ \A i, j \in 1 .. 4 : RegTypes[i] = RegTypes[j] => i = j
  /\ \A t \in Range(RegTypes) : \E i \in 1 .. 4 : RegTypes[i] = t
  /\ \A t : CheckType(t) \in Range(RegTypes)
<1>1. RegTypes = <<"coils", "discrete", "holding", "input">>
  BY DEF RegTypes
<1>2. /\ Len(RegTypes) = 4 /\ DOMAIN RegTypes = 1 .. 4
      /\ RegTypes[1] = "coils" /\ RegTypes[2] = "discrete"
      /\ RegTypes[3] = "holding" /\ RegTypes[4] = "input"
      /\ RegTypes = [i \in 1 .. 4 |-> RegTypes[i]]
  BY <1>1
<1>3. \A i, j \in 1 .. 4 : RegTypes[i] = RegTypes[j] => i = j
  <2>1. \A i \in 1 .. 4 : i = 1 \/ i = 2 \/ i = 3 \/ i = 4
    OBVIOUS
  <2> QED
    BY <1>2, <2>1
<1>4. Range(RegTypes) = {RegTypes[i] : i \in 1 .. 4}
  BY <1>2 DEF Range
<1>5. RegTypes \in [1 .. 4 -> Range(RegTypes)]
  BY <1>2, <1>4
<1>6. "coils" \in Range(RegTypes)
  BY <1>2, <1>4
<1>7. \A t : CheckType(t) \in Range(RegTypes)
  BY <1>6 DEF CheckType
<1> QED
  BY <1>2, <1>3, <1>4, <1>5, <1>7

\* The place of the value i in the steps, by the cursor.
LEMMA UnitsAt ==
  ASSUME NEW vs, NEW grouped, NEW pl, Settings(vs, grouped, pl), NEW p \in Spots(pl)
  PROVE  LET t == RegTypes[p.type]
             d == p.index + 1
         IN  /\ t \in Range(RegTypes) /\ p.type \in 1 .. 4 /\ p.index \in Nat
             /\ d \in DOMAIN Datasets(vs, t, grouped) /\ d \in 1 .. Len(pl[t])
             /\ StepAt(pl, p) = PoolOf(vs, grouped)[t][d]
             /\ StepAt(pl, p).values =
                  {Placed(i, vs[i], Datasets(vs, t, grouped)[d]) : i \in FirstIn(vs, t, grouped, d)}
<1> DEFINE t == RegTypes[p.type]
           d == p.index + 1
<1>1. p.type \in 1 .. 4 /\ p.index \in Nat /\ p.index < Len(pl[t])
  BY DEF Spots
<1>2. t \in Range(RegTypes)
  BY <1>1, Kinds
<1>3. vs \in Seq(Values) /\ grouped \in BOOLEAN /\ pl = PoolOf(vs, grouped)
  BY DEF Settings
<1>4. StepAt(pl, p) = pl[t][d]
  BY DEF StepAt
<1> HIDE DEF t
<1>5. Len(pl[t]) \in Nat /\ DOMAIN pl[t] = 1 .. Len(pl[t]) /\ DOMAIN Datasets(vs, t, grouped) = DOMAIN pl[t]
  BY <1>2, <1>3, StepsShape
<1>6. d \in 1 .. Len(pl[t])
  BY <1>1, <1>5
<1> HIDE DEF d
<1>7. pl[t][d].values =
        {Placed(i, vs[i], Datasets(vs, t, grouped)[d]) : i \in FirstIn(vs, t, grouped, d)}
  BY <1>2, <1>3, <1>5, <1>6, StepsShape
<1> QED
  BY <1>1, <1>2, <1>3, <1>4, <1>5, <1>6, <1>7 DEF t, d

\* A unit is known by its value.
LEMMA OneUnit ==
  ASSUME NEW vs, NEW grouped, NEW pl, Settings(vs, grouped, pl), NEW p \in Spots(pl),
         NEW u \in StepAt(pl, p).values
  PROVE  LET t == RegTypes[p.type]
             d == p.index + 1
         IN  /\ u.value \in FirstIn(vs, t, grouped, d)
             /\ u = Placed(u.value, vs[u.value], Datasets(vs, t, grouped)[d])
             /\ u.plugin = Plugin(vs[u.value])
<1> DEFINE t == RegTypes[p.type]
           d == p.index + 1
<1>1. PICK i \in FirstIn(vs, t, grouped, d) : u = Placed(i, vs[i], Datasets(vs, t, grouped)[d])
  BY UnitsAt
<1> HIDE DEF t, d
<1>2. u.value = i /\ u.plugin = Plugin(vs[i])
  BY <1>1 DEF Placed
<1> QED
  BY <1>1, <1>2 DEF t, d

\* The step after a step has passed that one more.
LEMMA NextPassed ==
  ASSUME NEW pl, NEW c \in Spots(pl), NEW nx, nx = [c EXCEPT !.index = @ + 1]
  PROVE  /\ Passed(c, nx) /\ ~Passed(c, c)
         /\ \A p \in Spots(pl) : Passed(p, nx) <=> Passed(p, c) \/ p = c
<1>5. c \in [type : 1 .. 4, index : Nat]
  BY DEF Spots
<1>6. nx.type = c.type /\ nx.index = c.index + 1
  BY <1>5
<1>1. Passed(c, nx) /\ ~Passed(c, c)
  BY <1>5, <1>6 DEF Passed
<1>2. ASSUME NEW p \in Spots(pl)
      PROVE  Passed(p, nx) <=> Passed(p, c) \/ p = c
  <2>1. p \in [type : 1 .. 4, index : Nat]
    BY DEF Spots
  <2>2. p = c <=> p.type = c.type /\ p.index = c.index
    BY <1>5, <2>1
  <2> QED
    BY <1>5, <1>6, <2>1, <2>2 DEF Passed
<1> QED
  BY <1>1, <1>2

\* The measures of the step at the cursor keep what is known of the measures.
LEMMA CollectKeeps ==
  ASSUME NEW vs, NEW grouped, NEW pl, Settings(vs, grouped, pl),
         NEW c \in Spots(pl), NEW ms, NEW sl, Sound(pl, c, ms, sl), c \notin sl,
         NEW results, DOMAIN results = StepAt(pl, c).values,
         \A u \in StepAt(pl, c).values : MeasureOf(pl, c, u, results[u]),
         NEW nx, nx = [c EXCEPT !.index = @ + 1],
         NEW new, new = ms \cup {[at |-> c, value |-> u.value, measure |-> results[u]] :
                                   u \in DOMAIN results}
  PROVE  /\ Sound(pl, nx, new, sl)
         /\ Full(pl, c, ms, sl) => Full(pl, nx, new, sl)
<1> DEFINE U == StepAt(pl, c).values
           rec(u) == [at |-> c, value |-> u.value, measure |-> results[u]]
<1>1. new = ms \cup {rec(u) : u \in U}
  OBVIOUS
<1>2. \A u \in U : rec(u).at = c /\ rec(u).value = u.value /\ rec(u).measure = results[u]
  OBVIOUS
<1>3. \A u, w \in U : u.value = w.value => u = w
  BY OneUnit
<1>4. \A u \in U : MeasureOf(pl, c, u, results[u])
  OBVIOUS
<1> HIDE DEF rec
<1>7. /\ Passed(c, nx) /\ ~Passed(c, c)
      /\ \A p \in Spots(pl) : Passed(p, nx) <=> Passed(p, c) \/ p = c
  BY NextPassed
<1>8. /\ \A m \in ms :
           /\ m.at \in Spots(pl) /\ Passed(m.at, c) /\ m.at \notin sl
           /\ \E u \in StepAt(pl, m.at).values :
                m.value = u.value /\ MeasureOf(pl, m.at, u, m.measure)
      /\ \A m, n \in ms : m.at = n.at /\ m.value = n.value => m = n
  BY DEF Sound
<1>9. ASSUME NEW m \in new
      PROVE  /\ m.at \in Spots(pl) /\ Passed(m.at, nx) /\ m.at \notin sl
             /\ \E u \in StepAt(pl, m.at).values :
                  m.value = u.value /\ MeasureOf(pl, m.at, u, m.measure)
  <2>1. CASE m \in ms
    BY <1>7, <1>8, <2>1
  <2>2. CASE m \notin ms
    <3>1. PICK u \in U : m = rec(u)
      BY <1>1, <2>2
    <3>2. m.at = c /\ m.value = u.value /\ m.measure = results[u]
      BY <1>2, <3>1
    <3> QED
      BY <1>4, <1>7, <3>2
  <2> QED
    BY <2>1, <2>2
<1>10. ASSUME NEW m \in new, NEW n \in new, m.at = n.at, m.value = n.value
       PROVE  m = n
  <2>1. \A x \in new : x \in ms \/ \E u \in U : x = rec(u)
    BY <1>1
  <2>2. \A x \in ms : x.at # c
    BY <1>7, <1>8
  <2>3. CASE m \in ms
    <3>1. n \in ms
      BY <1>2, <1>10, <2>1, <2>2, <2>3
    <3> QED
      BY <1>8, <1>10, <2>3, <3>1
  <2>4. CASE m \notin ms
    <3>1. PICK u \in U : m = rec(u)
      BY <2>1, <2>4
    <3>2. PICK w \in U : n = rec(w)
      BY <1>2, <1>10, <2>1, <2>2, <3>1
    <3>3. u.value = w.value
      BY <1>2, <1>10, <3>1, <3>2
    <3> QED
      BY <1>3, <3>1, <3>2, <3>3
  <2> QED
    BY <2>3, <2>4
<1>11. Sound(pl, nx, new, sl)
  BY <1>9, <1>10 DEF Sound
<1>12. ASSUME Full(pl, c, ms, sl)
       PROVE  Full(pl, nx, new, sl)
  <2> SUFFICES ASSUME NEW p \in Spots(pl), Passed(p, nx), p \notin sl, NEW u \in StepAt(pl, p).values
               PROVE  \E m \in new : m.at = p /\ m.value = u.value
    BY DEF Full
  <2>1. CASE Passed(p, c)
    <3>1. \E m \in ms : m.at = p /\ m.value = u.value
      BY <1>12, <2>1 DEF Full
    <3> QED
      BY <1>1, <3>1
  <2>2. CASE p = c
    <3>1. u \in U /\ rec(u) \in new
      BY <1>1, <2>2
    <3> QED
      BY <1>2, <2>2, <3>1
  <2> QED
    BY <1>7, <2>1, <2>2
<1> QED
  BY <1>11, <1>12

\* A cursor that moves on has passed what it had passed.
LEMMA SoundOn ==
  ASSUME NEW pl, NEW c, NEW d, NEW ms, NEW sl, Sound(pl, c, ms, sl),
         \A p \in Spots(pl) : Passed(p, c) => Passed(p, d)
  PROVE  Sound(pl, d, ms, sl)
BY DEF Sound

LEMMA MarksOn ==
  ASSUME NEW pl, NEW c, NEW d, NEW br, NEW sl, Marks(pl, c, br, sl),
         \A p \in Spots(pl) : Passed(p, c) => Passed(p, d)
  PROVE  Marks(pl, d, br, sl)
BY DEF Marks

\* The cursor of the next step is one of a cursor's, and has passed what was passed.
LEMMA Moved ==
  ASSUME NEW pl, NEW c \in Spots(pl), NEW nx, nx = [c EXCEPT !.index = @ + 1],
         Len(pl[RegTypes[c.type]]) \in Nat
  PROVE  CursorIn(pl, nx) /\ \A p \in Spots(pl) : Passed(p, c) => Passed(p, nx)
<1>1. c \in [type : 1 .. 4, index : Nat] /\ c.index < Len(pl[RegTypes[c.type]])
  BY DEF Spots
<1>2. nx \in [type : 1 .. 4, index : Nat] /\ nx.type = c.type /\ nx.index = c.index + 1
  BY <1>1
<1>3. CursorIn(pl, nx)
  BY <1>1, <1>2 DEF CursorIn
<1>4. ASSUME NEW p \in Spots(pl), Passed(p, c)
      PROVE  Passed(p, nx)
  <2>1. p \in [type : 1 .. 4, index : Nat]
    BY DEF Spots
  <2> QED
    BY <1>1, <1>2, <1>4, <2>1 DEF Passed
<1> QED
  BY <1>3, <1>4

\* A poll begins before the first step.
LEMMA AtStart ==
  ASSUME NEW vs, NEW grouped, NEW pl, Settings(vs, grouped, pl)
  PROVE  CursorIn(pl, FirstStep) /\ \A p \in Spots(pl) : ~Passed(p, FirstStep)
<1>1. FirstStep = [type |-> 1, index |-> 0]
  BY DEF FirstStep
<1>2. CursorIn(pl, FirstStep)
  <2>1. RegTypes[1] \in Range(RegTypes)
    BY Kinds
  <2>2. Len(pl[RegTypes[1]]) \in Nat
    BY <2>1, StepsShape DEF Settings
  <2> QED
    BY <1>1, <2>2 DEF CursorIn
<1>3. ASSUME NEW p \in Spots(pl) PROVE ~Passed(p, FirstStep)
  <2>1. p.type \in 1 .. 4 /\ p.index \in Nat
    BY DEF Spots
  <2> QED
    BY <1>1, <2>1 DEF Passed
<1> QED
  BY <1>2, <1>3

\* The invariant holds when the steps are made.
LEMMA StepsInvInit == StepsInit => StepsInv
<1> SUFFICES ASSUME StepsInit PROVE StepsInv
  OBVIOUS
<1>1. /\ configured \in SeqOf(Values, MaxValues)
      /\ \A i, j \in DOMAIN configured : i < j => configured[i].id < configured[j].id
      /\ by_group \in BOOLEAN /\ pool = PoolOf(configured, by_group)
      /\ cursor = FirstStep /\ measures = {} /\ stage = "reading"
      /\ broken = {} /\ silent = {}
  BY DEF StepsInit
<1>2. configured \in Seq(Values)
  <2>1. MaxValues \in Nat
    BY PollStepsAssumption, Zenon
  <2>2. PICK m \in 0 .. MaxValues : configured \in [1 .. m -> Values]
    BY <1>1, <2>1 DEF SeqOf
  <2> QED
    BY <2>1, <2>2
<1>3. ASSUME NEW i \in DOMAIN configured, NEW j \in DOMAIN configured,
             configured[i].id = configured[j].id
      PROVE  i = j
  <2>1. i \in Nat /\ j \in Nat
    BY <1>2
  <2>2. configured[i].id \in Nat /\ configured[j].id \in Nat
    BY <1>2, ValueTypes
  <2>3. ~(i < j) /\ ~(j < i)
    BY <1>1, <1>3, <2>2
  <2> QED
    BY <2>1, <2>3
<1>4. Settings(configured, by_group, pool)
  BY <1>1, <1>2, <1>3 DEF Settings
<1>5. CursorIn(pool, FirstStep) /\ \A p \in Spots(pool) : ~Passed(p, FirstStep)
  BY <1>4, AtStart
<1>7. Sound(pool, cursor, measures, silent) /\ Full(pool, cursor, measures, silent)
  BY <1>1, <1>5 DEF Sound, Full
<1>8. Marks(pool, cursor, broken, silent)
  BY <1>1 DEF Marks
<1> QED
  BY <1>1, <1>4, <1>5, <1>7, <1>8 DEF StepsInv

\* What a reading of the step at the cursor leaves, good or failed.
LEMMA CollectStep ==
  ASSUME StepsInv, Reads,
         NEW results, DOMAIN results = Step.values,
         \A u \in Step.values : MeasureOf(pool, cursor, u, results[u]),
         Collect(results), cursor' = [cursor EXCEPT !.index = @ + 1],
         broken' = broken \/ broken' = broken \cup {cursor},
         UNCHANGED <<configured, by_group, pool, stage, silent>>
  PROVE  StepsInv'
<1> PICK vs : vs = configured
  OBVIOUS
<1> PICK grouped : grouped = by_group
  OBVIOUS
<1> PICK pl : pl = pool
  OBVIOUS
<1> PICK c : c = cursor
  OBVIOUS
<1> PICK ms : ms = measures
  OBVIOUS
<1> PICK sl : sl = silent
  OBVIOUS
<1> PICK br : br = broken
  OBVIOUS
<1> PICK marked : marked = broken'
  OBVIOUS
<1> PICK nx : nx = cursor'
  OBVIOUS
<1> PICK new : new = measures'
  OBVIOUS
<1>0. stage = "reading" /\ HasStep /\ cursor \notin broken
  BY DEF Reads
<1>1. /\ Settings(vs, grouped, pl) /\ CursorIn(pl, c)
      /\ Sound(pl, c, ms, sl) /\ Full(pl, c, ms, sl) /\ Marks(pl, c, br, sl)
  BY <1>0 DEF StepsInv
<1>2. c \in Spots(pl) /\ c \notin sl
  <2>1. c \in Spots(pl)
    BY <1>0, <1>1 DEF CursorIn, Spots, HasStep
  <2>2. c \notin br
    BY <1>0
  <2> QED
    BY <1>1, <2>1, <2>2 DEF Marks
<1>3. Step = StepAt(pl, c)
  BY DEF Step, StepAt
<1>4. nx = [c EXCEPT !.index = @ + 1]
  OBVIOUS
<1>5. new = ms \cup {[at |-> c, value |-> u.value, measure |-> results[u]] : u \in DOMAIN results}
  BY DEF Collect
<1>6. Sound(pl, nx, new, sl) /\ Full(pl, nx, new, sl)
  <2>1. DOMAIN results = StepAt(pl, c).values
    BY <1>3
  <2>2. \A u \in StepAt(pl, c).values : MeasureOf(pl, c, u, results[u])
    BY <1>3
  <2> QED
    BY <1>1, <1>2, <1>4, <1>5, <2>1, <2>2, CollectKeeps
<1>7. CursorIn(pl, nx)
  <2>1. Len(pl[RegTypes[c.type]]) \in Nat
    BY <1>1, <1>2, UnitsAt, StepsShape DEF Settings
  <2> QED
    BY <1>2, <1>4, <2>1, Moved
<1>8. StepsInv' <=>
        /\ Settings(configured', by_group', pool')
        /\ CursorIn(pool', cursor')
        /\ stage' = "done" => AtEnd(pool', cursor')
        /\ Marks(pool', cursor', broken', silent')
        /\ Sound(pool', cursor', measures', silent')
        /\ stage' # "panicked" => Full(pool', cursor', measures', silent')
  BY DEF StepsInv
<1>10. Marks(pl, nx, marked, sl)
  <2>1. Passed(c, nx) /\ \A p \in Spots(pl) : Passed(p, c) => Passed(p, nx)
    BY <1>2, <1>4, NextPassed
  <2>2. marked \subseteq br \cup {c} /\ br \subseteq marked
    OBVIOUS
  <2> QED
    BY <1>1, <1>2, <2>1, <2>2 DEF Marks
<1>9. /\ Settings(configured', by_group', pool') /\ CursorIn(pool', cursor')
      /\ Sound(pool', cursor', measures', silent') /\ Full(pool', cursor', measures', silent')
      /\ Marks(pool', cursor', broken', silent')
  BY <1>1, <1>6, <1>7, <1>10
<1> QED
  BY <1>0, <1>8, <1>9

\* A step that answers keeps it, panic or not.
LEMMA ReadSucceedsInv == StepsInv /\ ReadSucceeds => StepsInv'
<1> SUFFICES ASSUME StepsInv, ReadSucceeds PROVE StepsInv'
  OBVIOUS
<1> DEFINE answer == Answer(RegTypes[cursor.type], Step)
<1>1. /\ Reads /\ HasStep /\ Step.length > 0
      /\ cursor' = [cursor EXCEPT !.index = @ + 1]
      /\ UNCHANGED <<configured, by_group, pool, broken, silent>>
  BY DEF ReadSucceeds, Reads, deviceVars
<1>2. CASE \A u \in Step.values : Fits(u, answer)
  <2> DEFINE results == [u \in Step.values |-> GetValue(u, answer)]
  <2>1. Collect(results) /\ UNCHANGED stage
    BY <1>2 DEF ReadSucceeds
  <2>2. DOMAIN results = Step.values
    OBVIOUS
  <2>3. \A u \in Step.values : MeasureOf(pool, cursor, u, results[u])
    <3>1. StepAt(pool, cursor) = Step
      BY DEF StepAt, Step
    <3>2. \A u \in Step.values : results[u] = GetValue(u, Answer(RegTypes[cursor.type], Step))
      OBVIOUS
    <3> HIDE DEF results
    <3> QED
      BY <1>1, <3>1, <3>2 DEF MeasureOf
  <2>4. PICK res : res = results
    OBVIOUS
  <2> HIDE DEF results
  <2>5. DOMAIN res = Step.values /\ \A u \in Step.values : MeasureOf(pool, cursor, u, res[u])
    BY <2>2, <2>3, <2>4
  <2>6. Collect(res)
    BY <2>1, <2>4
  <2> QED
    BY <1>1, <2>1, <2>5, <2>6, CollectStep
<1>3. CASE ~(\A u \in Step.values : Fits(u, answer))
  <2>1. stage' = "panicked" /\ UNCHANGED measures
    BY <1>3 DEF ReadSucceeds
  <2>2. /\ Settings(configured, by_group, pool) /\ CursorIn(pool, cursor)
        /\ Sound(pool, cursor, measures, silent) /\ Marks(pool, cursor, broken, silent)
    BY DEF StepsInv
  <2> PICK vs : vs = configured
    OBVIOUS
  <2> PICK grouped : grouped = by_group
    OBVIOUS
  <2> PICK pl : pl = pool
    OBVIOUS
  <2> PICK c : c = cursor
    OBVIOUS
  <2> PICK ms : ms = measures
    OBVIOUS
  <2> PICK sl : sl = silent
    OBVIOUS
  <2> PICK br : br = broken
    OBVIOUS
  <2> PICK nx : nx = cursor'
    OBVIOUS
  <2>3. /\ Settings(vs, grouped, pl) /\ CursorIn(pl, c) /\ Sound(pl, c, ms, sl)
        /\ Marks(pl, c, br, sl)
        /\ nx = [c EXCEPT !.index = @ + 1]
    BY <1>1, <2>2
  <2>4. c \in Spots(pl)
    BY <1>1, <2>3 DEF CursorIn, Spots, HasStep
  <2>5. Len(pl[RegTypes[c.type]]) \in Nat
    BY <2>3, <2>4, UnitsAt, StepsShape DEF Settings
  <2>6. CursorIn(pl, nx) /\ \A p \in Spots(pl) : Passed(p, c) => Passed(p, nx)
    BY <2>3, <2>4, <2>5, Moved
  <2>7. Sound(pl, nx, ms, sl) /\ Marks(pl, nx, br, sl)
    BY <2>3, <2>6, SoundOn, MarksOn
  <2>8. StepsInv' <=>
          /\ Settings(configured', by_group', pool')
          /\ CursorIn(pool', cursor')
          /\ stage' = "done" => AtEnd(pool', cursor')
          /\ Marks(pool', cursor', broken', silent')
          /\ Sound(pool', cursor', measures', silent')
          /\ stage' # "panicked" => Full(pool', cursor', measures', silent')
    BY DEF StepsInv
  <2>9. /\ Settings(configured', by_group', pool') /\ CursorIn(pool', cursor')
        /\ Sound(pool', cursor', measures', silent') /\ Marks(pool', cursor', broken', silent')
    BY <1>1, <2>1, <2>3, <2>6, <2>7
  <2> QED
    BY <2>1, <2>8, <2>9
<1> QED
  BY <1>2, <1>3

\* A step that fails keeps it, marked or not.
LEMMA ReadFailsInv == StepsInv /\ (ReadFails \/ MarkBroken) => StepsInv'
<1> SUFFICES ASSUME StepsInv, ReadFails \/ MarkBroken PROVE StepsInv'
  OBVIOUS
<1> DEFINE results == [u \in Step.values |-> FailValue(u)]
<1>1. /\ Reads /\ Collect(results)
      /\ cursor' = [cursor EXCEPT !.index = @ + 1]
      /\ broken' = broken \/ broken' = broken \cup {cursor}
      /\ UNCHANGED <<configured, by_group, pool, stage, silent>>
  BY DEF ReadFails, MarkBroken, deviceVars
<1>2. /\ DOMAIN results = Step.values
      /\ \A u \in Step.values : MeasureOf(pool, cursor, u, results[u])
  BY DEF MeasureOf
<1>3. PICK res : res = results
  OBVIOUS
<1> HIDE DEF results
<1>4. DOMAIN res = Step.values /\ \A u \in Step.values : MeasureOf(pool, cursor, u, res[u])
  BY <1>2, <1>3
<1>5. Collect(res)
  BY <1>1, <1>3
<1> QED
  BY <1>1, <1>4, <1>5, CollectStep

\* A broken step that the cursor comes to was broken when the poll began.
LEMMA SkipBrokenInv == StepsInv /\ SkipBroken => StepsInv'
<1> SUFFICES ASSUME StepsInv, SkipBroken PROVE StepsInv'
  OBVIOUS
<1>1. /\ stage = "reading" /\ HasStep /\ cursor \in broken
      /\ cursor' = [cursor EXCEPT !.index = @ + 1]
      /\ UNCHANGED <<configured, by_group, pool, broken, measures, stage, silent>>
  BY DEF SkipBroken, deviceVars
<1> PICK vs : vs = configured
  OBVIOUS
<1> PICK grouped : grouped = by_group
  OBVIOUS
<1> PICK pl : pl = pool
  OBVIOUS
<1> PICK c : c = cursor
  OBVIOUS
<1> PICK ms : ms = measures
  OBVIOUS
<1> PICK sl : sl = silent
  OBVIOUS
<1> PICK br : br = broken
  OBVIOUS
<1> PICK nx : nx = cursor'
  OBVIOUS
<1>2. /\ Settings(vs, grouped, pl) /\ CursorIn(pl, c) /\ Marks(pl, c, br, sl)
      /\ Sound(pl, c, ms, sl) /\ Full(pl, c, ms, sl) /\ c \in br
      /\ nx = [c EXCEPT !.index = @ + 1]
  BY <1>1 DEF StepsInv
<1>3. c \in Spots(pl)
  BY <1>2 DEF Marks
<1>4. /\ ~Passed(c, c)
      /\ \A p \in Spots(pl) : Passed(p, nx) <=> Passed(p, c) \/ p = c
  BY <1>2, <1>3, NextPassed
<1>5. c \in sl
  BY <1>2, <1>4 DEF Marks
<1>6. Sound(pl, nx, ms, sl) /\ Marks(pl, nx, br, sl)
  BY <1>2, <1>4, SoundOn, MarksOn
<1>7. Full(pl, nx, ms, sl)
  BY <1>2, <1>4, <1>5 DEF Full
<1>8. CursorIn(pl, nx)
  <2>1. Len(pl[RegTypes[c.type]]) \in Nat
    BY <1>2, <1>3, UnitsAt, StepsShape DEF Settings
  <2> QED
    BY <1>2, <1>3, <2>1, Moved
<1>9. /\ Settings(configured', by_group', pool') /\ CursorIn(pool', cursor')
      /\ Sound(pool', cursor', measures', silent') /\ Full(pool', cursor', measures', silent')
      /\ Marks(pool', cursor', broken', silent')
  BY <1>1, <1>2, <1>6, <1>7, <1>8
<1>10. stage' # "done"
  BY <1>1
<1> QED
  BY <1>9, <1>10 DEF StepsInv

\* The next poll passes over what is broken by now.
LEMMA NextPollInv == StepsInv /\ NextPoll => StepsInv'
<1> SUFFICES ASSUME StepsInv, NextPoll PROVE StepsInv'
  OBVIOUS
<1>1. /\ cursor' = FirstStep /\ measures' = {} /\ stage' = "reading" /\ silent' = broken
      /\ UNCHANGED <<configured, by_group, pool, broken>>
  BY DEF NextPoll, deviceVars
<1>2. Settings(configured, by_group, pool) /\ Marks(pool, cursor, broken, silent)
  BY DEF StepsInv
<1>3. CursorIn(pool, FirstStep) /\ \A p \in Spots(pool) : ~Passed(p, FirstStep)
  BY <1>2, AtStart
<1>4. Marks(pool, FirstStep, broken, broken)
  BY <1>2 DEF Marks
<1>5. Sound(pool, FirstStep, {}, broken) /\ Full(pool, FirstStep, {}, broken)
  BY <1>3 DEF Sound, Full
<1> QED
  BY <1>1, <1>2, <1>3, <1>4, <1>5 DEF StepsInv

\* Past the last step of a kind of register every step of it is passed.
LEMMA KindPassed ==
  ASSUME NEW pl, NEW c, CursorIn(pl, c), c.index = Len(pl[RegTypes[c.type]]),
         NEW nx, nx = [type |-> c.type + 1, index |-> 0]
  PROVE  \A p \in Spots(pl) : Passed(p, nx) <=> Passed(p, c)
<1>1. c \in [type : 1 .. 4, index : Nat]
  BY DEF CursorIn
<1>2. nx.type = c.type + 1 /\ nx.index = 0
  OBVIOUS
<1>3. ASSUME NEW p \in Spots(pl)
      PROVE  Passed(p, nx) <=> Passed(p, c)
  <2>1. p.type \in 1 .. 4 /\ p.index \in Nat /\ p.index < Len(pl[RegTypes[p.type]])
    BY DEF Spots
  <2>2. p.type = c.type => p.index < c.index
    BY <2>1
  <2>3. Passed(p, nx) <=> p.type <= c.type
    BY <1>1, <1>2, <2>1 DEF Passed
  <2>4. Passed(p, c) <=> p.type <= c.type
    BY <1>1, <2>1, <2>2 DEF Passed
  <2> QED
    BY <2>3, <2>4
<1> QED
  BY <1>3

\* Going on to the next kind of register, or to the end, keeps it.
LEMMA NextTypeInv == StepsInv /\ NextType => StepsInv'
<1> SUFFICES ASSUME StepsInv, NextType PROVE StepsInv'
  OBVIOUS
<1>1. /\ stage = "reading" /\ ~HasStep
      /\ UNCHANGED <<configured, by_group, pool, measures, broken, silent>>
  BY DEF NextType, deviceVars
<1>2. /\ Settings(configured, by_group, pool) /\ CursorIn(pool, cursor)
      /\ Sound(pool, cursor, measures, silent) /\ Full(pool, cursor, measures, silent)
      /\ Marks(pool, cursor, broken, silent)
  BY <1>1 DEF StepsInv
<1> PICK vs : vs = configured
  OBVIOUS
<1> PICK grouped : grouped = by_group
  OBVIOUS
<1> PICK pl : pl = pool
  OBVIOUS
<1> PICK c : c = cursor
  OBVIOUS
<1> PICK ms : ms = measures
  OBVIOUS
<1> PICK sl : sl = silent
  OBVIOUS
<1> PICK br : br = broken
  OBVIOUS
<1> PICK nx : nx = cursor'
  OBVIOUS
<1>3. /\ Settings(vs, grouped, pl) /\ CursorIn(pl, c)
      /\ Sound(pl, c, ms, sl) /\ Full(pl, c, ms, sl) /\ Marks(pl, c, br, sl)
  BY <1>2
<1>4. c \in [type : 1 .. 4, index : Nat] /\ c.index = Len(pl[RegTypes[c.type]])
  <2>1. c \in [type : 1 .. 4, index : Nat] /\ c.index <= Len(pl[RegTypes[c.type]])
    BY <1>3 DEF CursorIn
  <2>2. ~(c.index < Len(pl[RegTypes[c.type]]))
    BY <1>1 DEF HasStep
  <2>3. RegTypes[c.type] \in Range(RegTypes)
    BY <2>1, Kinds
  <2>4. Len(pl[RegTypes[c.type]]) \in Nat
    BY <1>3, <2>3, StepsShape DEF Settings
  <2> QED
    BY <2>1, <2>2, <2>4
<1>5. StepsInv' <=>
        /\ Settings(configured', by_group', pool')
        /\ CursorIn(pool', cursor')
        /\ stage' = "done" => AtEnd(pool', cursor')
        /\ Marks(pool', cursor', broken', silent')
        /\ Sound(pool', cursor', measures', silent')
        /\ stage' # "panicked" => Full(pool', cursor', measures', silent')
  BY DEF StepsInv
<1>6. CASE c.type < 4
  <2>1. nx = [type |-> c.type + 1, index |-> 0] /\ UNCHANGED stage
    BY <1>6, Kinds DEF NextType
  <2>2. \A p \in Spots(pl) : Passed(p, nx) <=> Passed(p, c)
    BY <1>3, <1>4, <2>1, KindPassed
  <2>3. Sound(pl, nx, ms, sl) /\ Marks(pl, nx, br, sl)
    BY <1>3, <2>2, SoundOn, MarksOn
  <2>4. Full(pl, nx, ms, sl)
    BY <1>3, <2>2 DEF Full
  <2>5. CursorIn(pl, nx)
    <3>1. nx \in [type : 1 .. 4, index : Nat]
      BY <1>4, <1>6, <2>1
    <3>2. RegTypes[nx.type] \in Range(RegTypes)
      BY <3>1, Kinds
    <3>3. Len(pl[RegTypes[nx.type]]) \in Nat
      BY <1>3, <3>2, StepsShape DEF Settings
    <3>4. nx.index = 0
      BY <2>1
    <3> QED
      BY <3>1, <3>3, <3>4 DEF CursorIn
  <2>6. stage' # "done"
    BY <1>1, <2>1
  <2>7. /\ Settings(configured', by_group', pool') /\ CursorIn(pool', cursor')
        /\ Sound(pool', cursor', measures', silent') /\ Full(pool', cursor', measures', silent')
        /\ Marks(pool', cursor', broken', silent')
    BY <1>1, <1>3, <2>3, <2>4, <2>5
  <2> QED
    BY <1>5, <2>6, <2>7
<1>7. CASE ~(c.type < 4)
  <2>1. stage' = "done" /\ UNCHANGED cursor
    BY <1>7, Kinds DEF NextType
  <2>2. AtEnd(pl, c)
    BY <1>4, <1>7 DEF AtEnd
  <2>3. /\ Settings(configured', by_group', pool') /\ CursorIn(pool', cursor')
        /\ Sound(pool', cursor', measures', silent') /\ Full(pool', cursor', measures', silent')
        /\ Marks(pool', cursor', broken', silent')
        /\ AtEnd(pool', cursor')
    BY <1>1, <1>3, <2>1, <2>2
  <2> QED
    BY <1>5, <2>1, <2>3
<1> QED
  BY <1>6, <1>7

\* The invariant of a poll: the steps are those the values give, every measure comes of
\* one value of a step behind the cursor that was read and no value of a step has two, and
\* unless a plugin panicked every value of such a step has its measure; a step that is
\* broken was broken before the poll or is behind the cursor (PollValueIterator and
\* PoolValueRefIterator, ReadStep.broken).
THEOREM StepsInvariant == StepsSpec => []StepsInv
<1>1. StepsInv /\ [StepsNext]_stepsVars => StepsInv'
  <2> SUFFICES ASSUME StepsInv, [StepsNext]_stepsVars PROVE StepsInv'
    OBVIOUS
  <2>1. CASE ReadSucceeds
    BY <2>1, ReadSucceedsInv
  <2>2. CASE ReadFails \/ MarkBroken
    BY <2>2, ReadFailsInv
  <2>5. CASE SkipBroken
    BY <2>5, SkipBrokenInv
  <2>6. CASE NextPoll
    BY <2>6, NextPollInv
  <2>3. CASE NextType
    BY <2>3, NextTypeInv
  <2>4. CASE UNCHANGED stepsVars
    BY <2>4 DEF stepsVars, deviceVars, StepsInv
  <2> QED
    BY <2>1, <2>2, <2>3, <2>4, <2>5, <2>6 DEF StepsNext
<1> QED
  BY <1>1, StepsInvInit, PTL DEF StepsSpec

-----------------------------------------------------------------------------
(* Every value has one measure.                                              *)

\* Whose measure one with the id of a value is.
LEMMA WhoseMeasure ==
  ASSUME StepsInv, NEW i \in DOMAIN configured, NEW m \in measures,
         m.measure.id = configured[i].id
  PROVE  /\ m.at \in Spots(pool) /\ m.at \notin silent /\ configured[i].parses /\ m.value = i
         /\ i \in FirstIn(configured, RegTypes[m.at.type], by_group, m.at.index + 1)
         /\ MeasureOf(pool, m.at,
              Placed(i, configured[i],
                Datasets(configured, RegTypes[m.at.type], by_group)[m.at.index + 1]), m.measure)
<1> DEFINE t == RegTypes[m.at.type]
           d == m.at.index + 1
<1>1. Settings(configured, by_group, pool) /\ Sound(pool, cursor, measures, silent)
  BY DEF StepsInv
<1>2. PICK u \in StepAt(pool, m.at).values :
        m.at \in Spots(pool) /\ m.at \notin silent /\ m.value = u.value /\ MeasureOf(pool, m.at, u, m.measure)
  BY <1>1 DEF Sound
<1>3. /\ u.value \in FirstIn(configured, t, by_group, d)
      /\ u = Placed(u.value, configured[u.value], Datasets(configured, t, by_group)[d])
      /\ u.plugin = Plugin(configured[u.value])
  BY <1>1, <1>2, OneUnit
<1>4. m.measure.id = u.plugin.id
  <2>1. \A answer : GetValue(u, answer).id = u.plugin.id
    BY DEF GetValue
  <2>2. FailValue(u).id = u.plugin.id
    BY DEF FailValue
  <2> QED
    BY <1>2, <2>1, <2>2 DEF MeasureOf
<1> HIDE DEF t, d
<1>5. u.value \in DOMAIN configured
  BY <1>3 DEF FirstIn, Mine
<1>6. configured \in Seq(Values)
  BY <1>1 DEF Settings
<1>7. configured[i].id \in Nat \ {0} /\ configured[u.value].parses \in BOOLEAN
  BY <1>5, <1>6, ValueTypes
<1>8. configured[u.value].parses
  <2> SUFFICES ASSUME ~configured[u.value].parses PROVE FALSE
    OBVIOUS
  <2>1. Plugin(configured[u.value]).id = 0
    BY DEF Plugin, Default
  <2> QED
    BY <1>3, <1>4, <1>7, <2>1
<1>9. Plugin(configured[u.value]).id = configured[u.value].id
  BY <1>8 DEF Plugin
<1>10. u.value = i
  BY <1>1, <1>3, <1>4, <1>5, <1>9 DEF Settings
<1> QED
  BY <1>2, <1>3, <1>8, <1>10 DEF t, d

\* A value is in one step only.
LEMMA SamePlace ==
  ASSUME NEW i, NEW p \in [type : 1 .. 4, index : Nat], NEW r \in [type : 1 .. 4, index : Nat],
         i \in FirstIn(configured, RegTypes[p.type], by_group, p.index + 1),
         i \in FirstIn(configured, RegTypes[r.type], by_group, r.index + 1)
  PROVE  p = r
<1>1. p.type = r.type
  <2>1. /\ Plugin(configured[i]).type = RegTypes[p.type]
        /\ Plugin(configured[i]).type = RegTypes[r.type]
    BY DEF FirstIn, Mine
  <2>2. p.type \in 1 .. 4 /\ r.type \in 1 .. 4
    OBVIOUS
  <2>3. \A k, l \in 1 .. 4 : RegTypes[k] = RegTypes[l] => k = l
    BY Kinds
  <2> QED
    BY <2>1, <2>2, <2>3
<1>2. p.index = r.index
  <2> DEFINE d == p.index + 1
             e == r.index + 1
             t == RegTypes[p.type]
  <2>1. i \in FirstIn(configured, t, by_group, d) /\ i \in FirstIn(configured, t, by_group, e)
    BY <1>1
  <2>2. d \in Nat /\ e \in Nat /\ d > 0 /\ e > 0
    OBVIOUS
  <2>3. d = e
    <3> HIDE DEF d, e, t
    <3> QED
      BY <2>1, <2>2, OnePlace
  <2> QED
    BY <2>3
<1> QED
  BY <1>1, <1>2

\* Two measures of a value are the same.
LEMMA OneMeasure ==
  ASSUME StepsInv, NEW i \in DOMAIN configured, NEW m \in measures, NEW n \in measures,
         m.measure.id = configured[i].id, n.measure.id = configured[i].id
  PROVE  m = n
<1>1. \A x \in measures : x.measure.id = configured[i].id =>
        /\ x.at \in Spots(pool) /\ x.value = i
        /\ i \in FirstIn(configured, RegTypes[x.at.type], by_group, x.at.index + 1)
  BY WhoseMeasure
<1>2. /\ m.at \in [type : 1 .. 4, index : Nat] /\ n.at \in [type : 1 .. 4, index : Nat]
  BY <1>1 DEF Spots
<1>3. m.at = n.at
  BY <1>1, <1>2, SamePlace
<1>4. m.value = n.value
  BY <1>1
<1> QED
  BY <1>3, <1>4 DEF StepsInv, Sound

\* A value of a step that was broken when the poll began has no measure.
LEMMA SilentGivesNone ==
  ASSUME StepsInv, NEW i \in DOMAIN configured, Silent(i), NEW m \in measures,
         m.measure.id = configured[i].id
  PROVE  FALSE
<1>1. Settings(configured, by_group, pool) /\ Marks(pool, cursor, broken, silent)
  BY DEF StepsInv
<1>2. PICK p \in silent : \E u \in StepAt(pool, p).values : u.value = i
  BY DEF Silent, StepAt
<1>3. p \in Spots(pool)
  BY <1>1, <1>2 DEF Marks
<1>4. i \in FirstIn(configured, RegTypes[p.type], by_group, p.index + 1)
  BY <1>1, <1>2, <1>3, OneUnit
<1>5. /\ m.at \in Spots(pool) /\ m.at \notin silent
      /\ i \in FirstIn(configured, RegTypes[m.at.type], by_group, m.at.index + 1)
  BY WhoseMeasure
<1>6. p \in [type : 1 .. 4, index : Nat] /\ m.at \in [type : 1 .. 4, index : Nat]
  BY <1>3, <1>5 DEF Spots
<1>7. p = m.at
  BY <1>4, <1>5, <1>6, SamePlace
<1> QED
  BY <1>2, <1>5, <1>7

\* A value that is in a step that is not silent has its measure when the poll is done.
LEMMA HasMeasure ==
  ASSUME StepsInv, stage = "done", NEW i \in DOMAIN configured, configured[i].parses, ~Silent(i),
         NEW t \in Range(RegTypes), NEW d \in 1 .. Len(pool[t]),
         i \in FirstIn(configured, t, by_group, d)
  PROVE  \E m \in measures : m.measure.id = configured[i].id
<1>1. /\ Settings(configured, by_group, pool) /\ AtEnd(pool, cursor) /\ CursorIn(pool, cursor)
      /\ Sound(pool, cursor, measures, silent) /\ Full(pool, cursor, measures, silent)
  BY DEF StepsInv
<1>2. PICK k \in 1 .. 4 : RegTypes[k] = t
  BY Kinds
<1>3. Len(pool[t]) \in Nat
  BY <1>1, StepsShape DEF Settings
<1> DEFINE p == [type |-> k, index |-> d - 1]
<1>4. p \in [type : 1 .. 4, index : Nat] /\ p.type = k /\ p.index = d - 1 /\ p.index + 1 = d
  BY <1>3
<1> HIDE DEF p
<1>5. p \in Spots(pool)
  BY <1>2, <1>3, <1>4 DEF Spots
<1>6. Passed(p, cursor)
  <2>1. cursor.type = 4 /\ cursor.index = Len(pool[RegTypes[4]])
    BY <1>1 DEF AtEnd
  <2>2. k = 4 => p.index < cursor.index
    BY <1>2, <1>3, <1>4, <2>1
  <2> QED
    BY <1>4, <2>1, <2>2 DEF Passed
<1>7. PICK u \in StepAt(pool, p).values : u = Placed(i, configured[i], Datasets(configured, t, by_group)[d])
  BY <1>1, <1>2, <1>4, <1>5, UnitsAt
<1>8. u.value = i
  BY <1>7 DEF Placed
<1>14. p \notin silent
  <2>1. StepAt(pool, p) = pool[RegTypes[p.type]][p.index + 1]
    BY DEF StepAt
  <2> QED
    BY <1>7, <1>8, <2>1 DEF Silent
<1>9. PICK m \in measures : m.at = p /\ m.value = i
  BY <1>1, <1>5, <1>6, <1>7, <1>8, <1>14 DEF Full
<1>10. PICK w \in StepAt(pool, p).values : w.value = i /\ MeasureOf(pool, p, w, m.measure)
  BY <1>1, <1>9 DEF Sound
<1>11. w.plugin = Plugin(configured[i])
  BY <1>1, <1>5, <1>10, OneUnit
<1>12. m.measure.id = w.plugin.id
  BY <1>10 DEF MeasureOf, GetValue, FailValue
<1>13. Plugin(configured[i]).id = configured[i].id
  BY DEF Plugin
<1> QED
  BY <1>11, <1>12, <1>13

\* A set whose elements are all the same.
LEMMA AtMostOne ==
  ASSUME NEW S, \A x, y \in S : x = y
  PROVE  Cardinality(S) <= 1 /\ (S = {} => Cardinality(S) = 0) /\ (S # {} => Cardinality(S) = 1)
<1>1. CASE S = {}
  BY <1>1, FS_EmptySet
<1>2. CASE S # {}
  <2>1. PICK x : x \in S
    BY <1>2
  <2>2. S = {x}
    BY <2>1
  <2> QED
    BY <1>2, <2>2, FS_Singleton
<1> QED
  BY <1>1, <1>2

\* A poll gives every value that can be read exactly one measure, however the registers
\* of a device repeat, touch or overlap, and no value two; only the values of a step that
\* the device refused in an earlier poll are given none (init_plugins, reg_sort,
\* group_create and single_create of pool_iterator.rs; ReadStep.broken).
THEOREM EveryValueOnce == StepsSpec => []ServedOnce
<1>1. StepsInv => ServedOnce
  <2> SUFFICES ASSUME StepsInv PROVE ServedOnce
    OBVIOUS
  <2> DEFINE M(i) == {m \in measures : m.measure.id = configured[i].id}
  <2>1. Settings(configured, by_group, pool)
    BY DEF StepsInv
  <2>2. /\ configured \in Seq(Values) /\ by_group \in BOOLEAN /\ pool = PoolOf(configured, by_group)
    BY <2>1 DEF Settings
  <2>3. ASSUME NEW i \in DOMAIN configured
        PROVE  /\ Served(configured[i]) <= 1
               /\ M(i) = {} => Served(configured[i]) = 0
               /\ M(i) # {} => Served(configured[i]) = 1
    <3>1. \A m, n \in M(i) : m = n
      BY OneMeasure
    <3>2. Served(configured[i]) = Cardinality(M(i))
      BY DEF Served
    <3> HIDE DEF M
    <3> QED
      BY <3>1, <3>2, AtMostOne
  <2>4. ASSUME stage = "done", NEW i \in DOMAIN configured, Known(configured[i]),
               configured[i].parses
        PROVE  /\ by_group /\ Adjacent(configured[i].registers) =>
                    Served(configured[i]) = IF Silent(i) THEN 0 ELSE 1
               /\ ~by_group =>
                    Served(configured[i]) =
                      IF OneRegister(configured[i].registers) THEN IF Silent(i) THEN 0 ELSE 1 ELSE 0
    <3> DEFINE t == Plugin(configured[i]).type
               q == configured[i].registers
    <3>1. t \in Range(RegTypes) /\ i \in Mine(configured, t)
      <4>1. t = CheckType(configured[i].type)
        BY <2>4 DEF Plugin
      <4> QED
        BY <2>4, <4>1, Kinds DEF Mine
    <3> HIDE DEF t
    <3>2. ASSUME (by_group /\ Adjacent(q)) \/ (~by_group /\ OneRegister(q))
          PROVE  Served(configured[i]) = IF Silent(i) THEN 0 ELSE 1
      <4>1. PICK d \in 1 .. Len(pool[t]) : i \in FirstIn(configured, t, by_group, d)
        BY <2>2, <2>4, <3>1, <3>2, Serves
      <4>2. ~Silent(i) => M(i) # {}
        BY <2>4, <3>1, <4>1, HasMeasure
      <4>3. Silent(i) => M(i) = {}
        BY <2>4, SilentGivesNone
      <4> HIDE DEF M
      <4> QED
        BY <2>3, <2>4, <4>2, <4>3
    <3>3. ASSUME ~by_group, ~OneRegister(q)
          PROVE  Served(configured[i]) = 0
      <4>1. ASSUME NEW m \in M(i) PROVE FALSE
        <5> DEFINE s == RegTypes[m.at.type]
                   d == m.at.index + 1
        <5>1. m \in measures /\ m.measure.id = configured[i].id
          OBVIOUS
        <5>2. m.at \in Spots(pool) /\ i \in FirstIn(configured, s, by_group, d)
          BY <5>1, WhoseMeasure
        <5>3. s \in Range(RegTypes) /\ d \in DOMAIN Datasets(configured, s, by_group)
          BY <2>1, <5>2, UnitsAt
        <5>4. i \in Mine(configured, s)
          BY <5>2 DEF FirstIn
        <5> HIDE DEF s, d
        <5> QED
          BY <2>2, <2>4, <3>3, <5>2, <5>3, <5>4, NeverServed
      <4>2. M(i) = {}
        BY <4>1
      <4> QED
        BY <2>3, <4>2
    <3> HIDE DEF q
    <3>4. by_group /\ Adjacent(q) => Served(configured[i]) = IF Silent(i) THEN 0 ELSE 1
      BY <3>2
    <3>5. ~by_group =>
            Served(configured[i]) = IF OneRegister(q) THEN IF Silent(i) THEN 0 ELSE 1 ELSE 0
      BY <3>2, <3>3
    <3> QED
      BY <3>4, <3>5 DEF q
  <2>5. \A i \in DOMAIN configured : configured[i].parses => Served(configured[i]) <= 1
    BY <2>3
  <2> HIDE DEF M
  <2> QED
    BY <2>2, <2>4, <2>5 DEF ServedOnce
<1> QED
  BY <1>1, StepsInvariant, PTL

-----------------------------------------------------------------------------
(* Every value reads its own registers.                                      *)

\* Where the settings fit no plugin looks behind the end of an answer.
LEMMA NoPanic ==
  ASSUME SettingsFit, StepsInv, stage # "panicked", [StepsNext]_stepsVars
  PROVE  stage' # "panicked"
<1>1. CASE ReadSucceeds
  <2> DEFINE t == RegTypes[cursor.type]
             d == cursor.index + 1
             answer == Answer(t, Step)
  <2>1. stage = "reading" /\ HasStep /\ Step.length > 0
    BY <1>1 DEF ReadSucceeds, Reads
  <2>2. Settings(configured, by_group, pool) /\ CursorIn(pool, cursor)
    BY DEF StepsInv
  <2>3. cursor \in Spots(pool)
    BY <2>1, <2>2 DEF CursorIn, Spots, HasStep
  <2>4. StepAt(pool, cursor) = Step
    BY DEF StepAt, Step
  <2>5. /\ t \in Range(RegTypes) /\ d \in DOMAIN Datasets(configured, t, by_group)
        /\ Step = PoolOf(configured, by_group)[t][d]
        /\ Step.values = {Placed(i, configured[i], Datasets(configured, t, by_group)[d]) :
                            i \in FirstIn(configured, t, by_group, d)}
    BY <2>2, <2>3, <2>4, UnitsAt
  <2>6. configured \in Seq(Values) /\ by_group \in BOOLEAN
    BY <2>2 DEF Settings
  <2> HIDE DEF t, d
  <2>7. ASSUME NEW u \in Step.values
        PROVE  Fits(u, answer)
    <3>1. PICK i \in FirstIn(configured, t, by_group, d) :
            u = Placed(i, configured[i], Datasets(configured, t, by_group)[d])
      BY <2>5
    <3>2. PoolOf(configured, by_group)[t][d].length > 0
      BY <2>1, <2>5
    <3>3. Fits(Placed(i, configured[i], Datasets(configured, t, by_group)[d]),
               Answer(t, PoolOf(configured, by_group)[t][d]))
      BY <2>5, <2>6, <3>2, GoodValue
    <3> QED
      BY <2>5, <3>1, <3>3
  <2>8. UNCHANGED stage
    BY <1>1, <2>7 DEF ReadSucceeds, t
  <2> QED
    BY <2>8
<1>2. CASE ReadFails \/ MarkBroken \/ SkipBroken
  BY <1>2 DEF ReadFails, MarkBroken, SkipBroken
<1>3. CASE NextType
  BY <1>3 DEF NextType
<1>4. CASE UNCHANGED stepsVars
  BY <1>4 DEF stepsVars
<1>5. CASE NextPoll
  BY <1>5 DEF NextPoll
<1> QED
  BY <1>1, <1>2, <1>3, <1>4, <1>5 DEF StepsNext

\* A good measure is decoded from the registers of its value and is the number they hold.
LEMMA OwnNumbers ==
  ASSUME SettingsFit, StepsInv, NEW c \in measures, NEW i \in DOMAIN configured,
         c.measure.id = configured[i].id, ~c.measure.failed, configured[i].parses
  PROVE  /\ c.measure.number = Decode(Plugin(configured[i]), OwnWords(configured[i]))
         /\ ~SignedSatec(configured[i]) => c.measure.number = Meant(configured[i])
         /\ c.measure.divisor =
              IF configured[i].decoding = "BitInWord" THEN 1 ELSE 10 ^ configured[i].multiplier
<1> DEFINE t == RegTypes[c.at.type]
           d == c.at.index + 1
           u == Placed(i, configured[i], Datasets(configured, t, by_group)[d])
           answer == Answer(t, StepAt(pool, c.at))
<1>1. /\ c.at \in Spots(pool) /\ i \in FirstIn(configured, t, by_group, d)
      /\ MeasureOf(pool, c.at, u, c.measure)
  BY WhoseMeasure
<1>2. Settings(configured, by_group, pool)
  BY DEF StepsInv
<1>3. configured \in Seq(Values) /\ by_group \in BOOLEAN
  BY <1>2 DEF Settings
<1>4. /\ t \in Range(RegTypes) /\ d \in DOMAIN Datasets(configured, t, by_group)
      /\ StepAt(pool, c.at) = PoolOf(configured, by_group)[t][d]
  BY <1>1, <1>2, UnitsAt
<1>5. StepAt(pool, c.at).length > 0 /\ c.measure = GetValue(u, answer)
  <2>1. FailValue(u).failed
    BY DEF FailValue
  <2> QED
    BY <1>1, <2>1 DEF MeasureOf
<1>6. u.plugin = Plugin(configured[i])
  BY DEF Placed
<1> HIDE DEF t, d
<1>7. /\ c.measure.number = Decode(Plugin(configured[i]), OwnWords(configured[i]))
      /\ ~SignedSatec(configured[i]) => c.measure.number = Meant(configured[i])
  <2>1. LET number == GetValue(u, Answer(t, PoolOf(configured, by_group)[t][d])).number
        IN  /\ number = Decode(Plugin(configured[i]), OwnWords(configured[i]))
            /\ ~SignedSatec(configured[i]) => number = Meant(configured[i])
    BY <1>1, <1>3, <1>4, <1>5, GoodValue
  <2> QED
    BY <1>4, <1>5, <2>1
<1>8. c.measure.divisor =
        IF configured[i].decoding = "BitInWord" THEN 1 ELSE 10 ^ configured[i].multiplier
  <2> HIDE DEF u, answer
  <2>1. c.measure.divisor = u.plugin.divisor
    BY <1>5 DEF GetValue
  <2>2. Plugin(configured[i]).divisor =
          IF configured[i].decoding = "BitInWord" THEN 1 ELSE 10 ^ configured[i].multiplier
    BY DEF Plugin
  <2> QED
    BY <1>6, <2>1, <2>2
<1> QED
  BY <1>7, <1>8

\* With settings that fit, every good measure is decoded from the value's own registers,
\* is the number they hold where the value is not a signed one of two registers, and no
\* plugin looks behind the end of an answer (find_your_registers and get_value of the
\* plugins, ReadStep::new).
THEOREM ReadsOwnRegisters ==
  ASSUME SettingsFit
  PROVE  StepsSpec => []OwnRegisters
<1> DEFINE Inv == StepsInv /\ stage # "panicked"
<1>1. StepsInit => Inv
  BY StepsInvInit DEF StepsInit
<1>2. Inv /\ StepsInv' /\ [StepsNext]_stepsVars => Inv'
  BY NoPanic
<1>3. Inv => OwnRegisters
  BY OwnNumbers DEF OwnRegisters
<1> QED
  BY <1>1, <1>2, <1>3, StepsInvariant, PTL DEF StepsSpec

=============================================================================
