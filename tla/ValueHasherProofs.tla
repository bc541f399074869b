-------------------------- MODULE ValueHasherProofs --------------------------
(***************************************************************************)
(* Theorems about ValueHasher for every capacity of at least two slots,    *)
(* every pair of delays and every stream of samples.                       *)
(***************************************************************************)
EXTENDS ValueHasher, HashUnitProofs, SequenceTheorems, TLAPS

-----------------------------------------------------------------------------
(* The inductive invariant.                                                  *)

LEMMA InitIndInv == Init => IndInv
<1> SUFFICES ASSUME NEW v \in Measures,
                    hasher = NewHasher(v, Start),
                    log = <<Point(v, Start)>>,
                    sample = Point(v, Start),
                    last_good = IF v = Fail THEN Start - 1 ELSE Start
             PROVE  IndInv
  BY DEF Init
<1>1. Start \in Nat /\ Start - 1 \in Nat
  BY ValueHasherAssumption
<1>2. /\ Point(v, Start) \in HashedValue
      /\ Point(v, Start).val = v /\ Point(v, Start).timestamp = Start
  BY <1>1, PointType
<1>3. Point(Zero, 0) \in HashedValue
  BY HashUnitAssumption, PointType DEF Measures
<1>4. 0 \in Slots
  BY HashUnitAssumption DEF Slots
<1>5. /\ hasher.head = 0 /\ hasher.tail = 0 /\ hasher.current = 0
      /\ hasher.state = "Normal" /\ hasher.last_emitted_ts = Start
      /\ hasher.ring_finished = FALSE /\ hasher.is_resolving_duplicate = FALSE
      /\ hasher.hashed_values =
           [i \in Slots |-> IF i = 0 THEN Point(v, Start) ELSE Point(Zero, 0)]
  BY DEF NewHasher
<1>6. HeadSlot = Point(v, Start)
  BY <1>4, <1>5 DEF HeadSlot
<1>7. hasher \in ValueHasher
  BY <1>1, <1>2, <1>3, <1>4, HashUnitAssumption DEF NewHasher, ValueHasher, HashState
<1>8. TypeOK
  BY <1>1, <1>2, <1>7 DEF TypeOK
<1>9. RingGeometry
  BY <1>5 DEF RingGeometry, Geometry
<1>10. LastRow = Point(v, Start) /\ log # <<>>
  BY DEF LastRow
<1>11. InStep(hasher, LastRow, sample.timestamp)
  BY <1>1, <1>2, <1>5, <1>6, <1>10 DEF InStep, Continues, HeadSlot
<1>12. LogInv
  BY <1>1, <1>2, <1>5, <1>10, <1>11 DEF LogInv
<1>13. HeartbeatKept
  BY <1>1, <1>2, <1>10, HashUnitAssumption DEF HeartbeatKept
<1> QED
  BY <1>8, <1>9, <1>12, <1>13 DEF IndInv

\* Saving one point, or two: what the caller's [before, now] adds to the rows.
LEMMA SaveRows ==
  ASSUME NEW l \in Seq(HashedValue), NEW p \in HashedValue, NEW q \in HashedValue
  PROVE  /\ l \o <<>> \o <<q>> = Append(l, q)
         /\ l \o <<p>> \o <<q>> = l \o <<p, q>>
         /\ \A m \in {Append(l, q), l \o <<p, q>>} :
              m \in Seq(HashedValue) /\ m # <<>> /\ m[Len(m)] = q
<1>1. l \o <<>> \o <<q>> = Append(l, q)
  OBVIOUS
<1>2. /\ Append(l, q) \in Seq(HashedValue) /\ Append(l, q) # <<>>
      /\ Append(l, q)[Len(Append(l, q))] = q
  OBVIOUS
<1> DEFINE k == Append(l, p)
<1>3. k \in Seq(HashedValue) /\ l \o <<p, q>> = Append(k, q) /\ l \o <<p>> = k
  OBVIOUS
<1> HIDE DEF k
<1>4. /\ Append(k, q) \in Seq(HashedValue) /\ Append(k, q) # <<>>
      /\ Append(k, q)[Len(Append(k, q))] = q
  BY <1>3
<1>5. k \o <<q>> = Append(k, q)
  BY <1>3
<1>6. l \o <<p>> \o <<q>> = l \o <<p, q>>
  BY <1>3, <1>5, Zenon
<1> QED
  BY <1>1, <1>2, <1>3, <1>4, <1>6

\* One sample: what it does to the invariant and to the rows.
LEMMA SampleFacts ==
  ASSUME IndInv, NEW v \in Measures, NEW d \in Steps,
         sample.timestamp + d <= MaxTime,
         AddSample(v, sample.timestamp + d)
  PROVE  /\ IndInv'
         /\ \/ log' = log
            \/ /\ log' = Append(log, Point(v, sample'.timestamp))
               /\ v = LastRow.val =>
                    sample'.timestamp - LastRow.timestamp >
                      IF v = Fail THEN FailureDelta ELSE StableDelta
            \/ /\ v # LastRow.val /\ LastRow.val # Fail
               /\ \E e \in LastRow.timestamp .. sample.timestamp :
                    /\ log' = log \o <<Point(LastRow.val, e), Point(v, sample'.timestamp)>>
                    /\ 0 \notin Steps => LastRow.timestamp < e
         /\ (log' # log /\ v = Fail) => sample'.timestamp - last_good > FailureDelta
         /\ LastRow.timestamp <= sample.timestamp
<1> DEFINE s == sample.timestamp
           t == s + d
           r == Add(hasher, v, t)
           row == LastRow
<1>1. /\ hasher \in ValueHasher /\ log \in Seq(HashedValue) /\ log # <<>>
      /\ sample \in HashedValue /\ last_good \in Nat
      /\ Geometry(hasher) /\ InStep(hasher, LastRow, s)
  BY DEF IndInv, TypeOK, RingGeometry, LogInv
<1>2. s \in Nat /\ d \in Nat /\ t \in Nat /\ s <= t /\ (0 \notin Steps => s < t)
  BY <1>1, ValueHasherAssumption, RingHistoryAssumption DEF HashedValue
<1>3. /\ Point(v, t) \in HashedValue
      /\ Point(v, t).val = v /\ Point(v, t).timestamp = t
  BY <1>2, PointType
<1>4. row \in HashedValue /\ row = log[Len(log)]
  BY <1>1 DEF LastRow
<1>5. /\ hasher' = r.hasher
      /\ log' = log \o r.before \o r.now
      /\ sample' = Point(v, t)
      /\ last_good' = IF v = Fail THEN last_good ELSE t
  BY DEF AddSample
<1>6. /\ r.hasher \in ValueHasher /\ Geometry(r.hasher)
      /\ v # Fail => r.hasher.state = "Normal"
      /\ \/ /\ r.now = <<>> /\ r.before = <<>>
            /\ InStep(r.hasher, row, t)
            /\ v # Fail => v = row.val /\ t - row.timestamp <= StableDelta
            /\ r.hasher.state = "InFail" =>
                 \/ r.hasher.hashed_values[r.hasher.head].timestamp = t
                 \/ r.hasher = hasher
         \/ /\ RowsOf(r, row, s, v, t)
            /\ InStep(r.hasher, Point(v, t), t)
            /\ r.hasher.state # "InFail"
            /\ v = Fail => /\ hasher.state = "InFail"
                           /\ t - HeadSlot.timestamp > FailureDelta
  BY <1>1, <1>2, <1>4, AddFacts, SMTT(30) DEF HeadSlot
<1> HIDE DEF r
<1>7. row.timestamp <= s /\ row.timestamp \in Nat
  <2>1. hasher.head \in Slots /\ SlotBefore(hasher.head) \in Slots
    BY <1>1, SlotNeighbours DEF ValueHasher
  <2>2. /\ HeadSlot.timestamp \in Nat
        /\ hasher.hashed_values[SlotBefore(hasher.head)].timestamp \in Nat
        /\ row.timestamp \in Nat
    BY <1>1, <1>4, <2>1 DEF ValueHasher, HashedValue, HeadSlot
  <2>3. hasher.state \in HashState
    BY <1>1 DEF ValueHasher
  <2> HIDE DEF row, s
  <2>4. CASE hasher.state = "Normal"
    <3>1. Continues(hasher, HeadSlot, row, s)
      BY <1>1, <2>4 DEF InStep, HeadSlot, row, s
    <3> QED
      BY <1>2, <2>2, <3>1 DEF Continues
  <2>5. CASE hasher.state = "InFail"
    <3>1. Continues(hasher, hasher.hashed_values[SlotBefore(hasher.head)], row, s)
      BY <1>1, <2>5 DEF InStep, row, s
    <3> QED
      BY <1>2, <2>2, <3>1 DEF Continues
  <2>6. CASE hasher.state = "FailReported"
    BY <1>1, <2>2, <2>6 DEF InStep, row, s
  <2> QED
    BY <2>3, <2>4, <2>5, <2>6 DEF HashState
<1>8. /\ last_good <= s
      /\ hasher.state = "InFail" => last_good <= HeadSlot.timestamp
      /\ HeadSlot.timestamp \in Nat
  BY <1>1 DEF IndInv, LogInv, HeadSlot, ValueHasher, HashedValue
<1>9. last_good' \in Nat /\ last_good' <= sample'.timestamp
  BY <1>1, <1>2, <1>3, <1>5, <1>8
<1>10. CASE r.now = <<>> /\ r.before = <<>>
  <2>1. log' = log /\ LastRow' = LastRow
    BY <1>1, <1>5, <1>10 DEF LastRow
  <2>2. /\ InStep(r.hasher, row, t)
        /\ v # Fail => v = row.val /\ t - row.timestamp <= StableDelta
        /\ r.hasher.state = "InFail" =>
             \/ r.hasher.hashed_values[r.hasher.head].timestamp = t
             \/ r.hasher = hasher
    BY <1>6, <1>10 DEF RowsOf
  <2>3. TypeOK'
    BY <1>1, <1>3, <1>5, <1>6, <1>9, <2>1 DEF TypeOK
  <2>4. hasher'.state = "InFail" => last_good' <= HeadSlot'.timestamp
    <3> SUFFICES ASSUME r.hasher.state = "InFail"
                 PROVE  last_good' <= HeadSlot'.timestamp
      BY <1>5
    <3>1. v = Fail /\ last_good' = last_good
      BY <1>5, <1>6
    <3>2. CASE r.hasher.hashed_values[r.hasher.head].timestamp = t
      BY <1>1, <1>2, <1>5, <1>8, <3>1, <3>2 DEF HeadSlot
    <3>3. CASE r.hasher = hasher
      BY <1>5, <1>8, <3>1, <3>3 DEF HeadSlot
    <3> QED
      BY <2>2, <3>2, <3>3
  <2>5. LogInv'
    BY <1>1, <1>3, <1>5, <1>6, <1>9, <2>1, <2>2, <2>4 DEF LogInv
  <2>6. HeartbeatKept'
    BY <1>3, <1>5, <2>1, <2>2 DEF HeartbeatKept
  <2> QED
    BY <1>5, <1>6, <1>7, <2>1, <2>3, <2>5, <2>6 DEF IndInv, RingGeometry
<1>11. CASE RowsOf(r, row, s, v, t)
  <2>1. r.now # <<>>
    BY <1>11 DEF RowsOf
  <2>2. /\ log' \in Seq(HashedValue) /\ log' # <<>>
        /\ LastRow' = Point(v, t)
        /\ \/ log' = Append(log, Point(v, t)) /\ r.before = <<>>
           \/ \E e \in row.timestamp .. s :
                /\ r.before = <<Point(row.val, e)>>
                /\ log' = log \o <<Point(row.val, e), Point(v, t)>>
    <3> HIDE DEF row, s, t
    <3>1. r.now = <<Point(v, t)>> /\ LastRow' = log'[Len(log')]
      BY <1>11 DEF RowsOf, LastRow
    <3>2. CASE r.before = <<>>
      <4>1. log' = Append(log, Point(v, t))
        BY <1>1, <1>3, <1>5, <3>1, <3>2, SaveRows
      <4> QED
        BY <1>1, <1>3, <3>1, <3>2, <4>1, SaveRows
    <3>3. ASSUME NEW e \in row.timestamp .. s, r.before = <<Point(row.val, e)>>
          PROVE  /\ log' = log \o <<Point(row.val, e), Point(v, t)>>
                 /\ log' \in Seq(HashedValue) /\ log' # <<>>
                 /\ LastRow' = Point(v, t)
      <4>1. Point(row.val, e) \in HashedValue
        BY <1>4, <1>7, <1>2, PointType DEF HashedValue
      <4>2. log' = log \o <<Point(row.val, e), Point(v, t)>>
        <5>1. log' = log \o <<Point(row.val, e)>> \o <<Point(v, t)>>
          BY <1>5, <3>1, <3>3
        <5> QED
          BY <1>1, <1>3, <4>1, <5>1, SaveRows
      <4> QED
        BY <1>1, <1>3, <3>1, <4>1, <4>2, SaveRows
    <3>4. \/ r.before = <<>>
          \/ \E e \in row.timestamp .. s : r.before = <<Point(row.val, e)>>
      BY <1>11 DEF RowsOf
    <3> QED
      BY <3>2, <3>3, <3>4
  <2>3. /\ InStep(r.hasher, Point(v, t), t)
        /\ r.hasher.state # "InFail"
        /\ v = Fail => /\ hasher.state = "InFail"
                       /\ t - HeadSlot.timestamp > FailureDelta
    BY <1>6, <2>1
  <2>4. TypeOK'
    BY <1>3, <1>5, <1>6, <1>9, <2>2 DEF TypeOK
  <2>5. LogInv'
    BY <1>3, <1>5, <1>6, <1>9, <2>2, <2>3 DEF LogInv
  <2>6. HeartbeatKept'
    BY <1>2, <1>3, <1>5, <2>2, HashUnitAssumption DEF HeartbeatKept
  <2>7. v = Fail => t - last_good > FailureDelta
    BY <1>1, <1>2, <1>8, <2>3, HashUnitAssumption
  <2>8. \/ /\ log' = Append(log, Point(v, t))
           /\ v = row.val => t - row.timestamp > IF v = Fail THEN FailureDelta ELSE StableDelta
        \/ /\ v # row.val /\ row.val # Fail
           /\ \E e \in row.timestamp .. s :
                /\ log' = log \o <<Point(row.val, e), Point(v, t)>>
                /\ 0 \notin Steps => row.timestamp < e
    <3>1. CASE r.before = <<>>
      BY <1>11, <2>2, <3>1 DEF RowsOf
    <3>2. CASE r.before # <<>>
      <4>1. PICK e \in row.timestamp .. s :
              /\ r.before = <<Point(row.val, e)>>
              /\ 0 \notin Steps => row.timestamp < e
        BY <1>11, <3>2 DEF RowsOf
      <4>2. PICK f \in row.timestamp .. s :
              /\ r.before = <<Point(row.val, f)>>
              /\ log' = log \o <<Point(row.val, f), Point(v, t)>>
        BY <2>2, <3>2
      <4>3. Point(row.val, e) = Point(row.val, f)
        BY <4>1, <4>2
      <4> QED
        BY <1>11, <3>2, <4>1, <4>2, <4>3 DEF RowsOf
    <3> QED
      BY <3>1, <3>2
  <2> QED
    BY <1>3, <1>5, <1>6, <1>7, <2>4, <2>5, <2>6, <2>7, <2>8 DEF IndInv, RingGeometry
<1> QED
  BY <1>6, <1>10, <1>11

\* Every step, stuttering included.
LEMMA StepIndInv == IndInv /\ [Next]_vars => IndInv'
<1>1. CASE UNCHANGED vars
  BY <1>1 DEF vars, IndInv, TypeOK, RingGeometry, Geometry, LogInv, InStep, Continues,
              HeartbeatKept, HeadSlot, LastRow
<1>2. ASSUME IndInv, NEW v \in Measures, NEW d \in Steps,
             sample.timestamp + d <= MaxTime,
             AddSample(v, sample.timestamp + d)
      PROVE  IndInv'
  BY <1>2, SampleFacts
<1> QED
  BY <1>1, <1>2 DEF Next

(***************************************************************************)
(* The invariant holds in every state: the indices of the ring describe    *)
(* it, and the slot of the plateau under way continues the last row saved. *)
(***************************************************************************)
THEOREM Invariance == Spec => []IndInv
<1> QED
  BY InitIndInv, StepIndInv, PTL DEF Spec

(***************************************************************************)
(* Every field of the hasher keeps its type: no index leaves the ring, and *)
(* current, which add_after_noice decrements, is never below zero.         *)
(***************************************************************************)
THEOREM TypeCorrect == Spec => []TypeOK
<1>1. IndInv => TypeOK
  BY DEF IndInv
<1> QED
  BY Invariance, <1>1, PTL

(***************************************************************************)
(* tail stays one slot ahead of head, or two after noise, for every        *)
(* capacity: also when the ring fills with the slot of a failure that is   *)
(* then rolled back.                                                       *)
(***************************************************************************)
THEOREM RingGeometryHolds == Spec => []RingGeometry
<1>1. IndInv => RingGeometry
  BY DEF IndInv
<1> QED
  BY Invariance, <1>1, PTL

(***************************************************************************)
(* After a successful read the last row has the value read; after a        *)
(* reported failure it marks the loss.                                     *)
(***************************************************************************)
THEOREM LogTellsTheValueHolds == Spec => []LogTellsTheValue
<1>1. IndInv => LogTellsTheValue
  BY DEF IndInv, LogInv, InStep, LogTellsTheValue
<1> QED
  BY Invariance, <1>1, PTL

(***************************************************************************)
(* After a successful read the last row is at most STABLE_DELTA old.       *)
(***************************************************************************)
THEOREM HeartbeatKeptHolds == Spec => []HeartbeatKept
<1>1. IndInv => HeartbeatKept
  BY DEF IndInv
<1> QED
  BY Invariance, <1>1, PTL

(***************************************************************************)
(* A loss is marked only when nothing was read for more than FAILURE_DELTA. *)
(***************************************************************************)
THEOREM LossMarkedLateHolds == Spec => LossMarkedLate
<1> DEFINE Late == \A i \in Len(log) + 1 .. Len(log') :
                     log'[i].val = Fail => log'[i].timestamp - last_good > FailureDelta
<1>1. IndInv /\ [Next]_vars => [Late]_vars
  <2> SUFFICES ASSUME IndInv, NEW v \in Measures, NEW d \in Steps,
                      sample.timestamp + d <= MaxTime,
                      AddSample(v, sample.timestamp + d)
               PROVE  Late
    BY DEF Next
  <2>1. /\ log \in Seq(HashedValue) /\ Point(v, sample'.timestamp).val = v
        /\ Point(v, sample'.timestamp).timestamp = sample'.timestamp
        /\ \A e : Point(LastRow.val, e).val = LastRow.val
    BY DEF IndInv, TypeOK, Point
  <2>2. (log' # log /\ v = Fail) => sample'.timestamp - last_good > FailureDelta
    BY SampleFacts
  <2>3. CASE log' = log
    BY <2>1, <2>3
  <2>4. CASE log' = Append(log, Point(v, sample'.timestamp))
    BY <2>1, <2>2, <2>4
  <2>5. ASSUME v # LastRow.val, LastRow.val # Fail,
               NEW e, log' = log \o <<Point(LastRow.val, e), Point(v, sample'.timestamp)>>
        PROVE  Late
    BY <2>1, <2>2, <2>5
  <2> QED
    BY <2>3, <2>4, <2>5, SampleFacts
<1> QED
  BY Invariance, <1>1, PTL DEF Spec, LossMarkedLate

(***************************************************************************)
(* When time advances between two samples of a tag, the rows it saves are  *)
(* a behaviour of TagHistory, whatever the capacity, the delays and the    *)
(* samples: every call of add is one of its steps or none.                 *)
(***************************************************************************)
THEOREM Refinement ==
  ASSUME 0 \notin Steps
  PROVE  Spec => ImplementsTagHistory
<1>1. Init => History!Init
  <2> SUFFICES ASSUME NEW v \in Measures, log = <<Point(v, Start)>>
               PROVE  History!Init
    BY DEF Init
  <2>1. Start \in 0 .. MaxTime
    BY ValueHasherAssumption
  <2> QED
    BY <2>1 DEF History!Init, History!Measures, History!Row, Measures, Point
<1>2. IndInv /\ [Next]_vars => [History!Next]_log
  <2> SUFFICES ASSUME IndInv, NEW v \in Measures, NEW d \in Steps,
                      sample.timestamp + d <= MaxTime,
                      AddSample(v, sample.timestamp + d)
               PROVE  [History!Next]_log
    BY DEF Next, vars
  <2> DEFINE t == sample.timestamp + d
  <2>1. sample.timestamp \in Nat /\ d \in Nat /\ d # 0 /\ sample'.timestamp = t
    BY ValueHasherAssumption, RingHistoryAssumption DEF IndInv, TypeOK, HashedValue, AddSample, Point
  <2>2. t \in 0 .. MaxTime /\ t > sample.timestamp
    BY <2>1, ValueHasherAssumption, RingHistoryAssumption
  <2>3. LastRow.timestamp \in Nat
    <3>1. log \in Seq(HashedValue) /\ log # <<>>
      BY DEF IndInv, TypeOK, LogInv
    <3>2. LastRow \in HashedValue
      BY <3>1 DEF LastRow
    <3> QED
      BY <3>2 DEF HashedValue
  <2> HIDE DEF t
  <2>4. LastRow.timestamp <= sample.timestamp
    BY SampleFacts
  <2>5. History!LastRow = LastRow /\ History!Measures = Measures
    BY DEF History!LastRow, LastRow, History!Measures, Measures
  <2>6. CASE log' = log
    BY <2>6
  <2>7. CASE log' = Append(log, Point(v, t)) /\ v = LastRow.val
    <3>1. log' # log
      BY <2>7 DEF IndInv, TypeOK
    <3>2. t - LastRow.timestamp > IF v = Fail THEN FailureDelta ELSE StableDelta
      BY <2>1, <2>7, <3>1, SampleFacts
    <3> QED
      BY <2>2, <2>5, <2>7, <3>2
         DEF History!Next, History!Heartbeat, History!RepeatDelta, History!Row, Point
  <2>8. CASE log' = Append(log, Point(v, t)) /\ v # LastRow.val
    <3>1. History!Change(v, t)
      BY <2>1, <2>2, <2>3, <2>4, <2>5, <2>8 DEF History!Change, History!Row, Point
    <3> QED
      BY <2>2, <2>5, <3>1 DEF History!Next
  <2>9. ASSUME v # LastRow.val, LastRow.val # Fail,
               NEW e \in LastRow.timestamp .. sample.timestamp, LastRow.timestamp < e,
               log' = log \o <<Point(LastRow.val, e), Point(v, t)>>
        PROVE  History!Next
    <3>1. e \in 0 .. MaxTime /\ e < t
      BY <2>1, <2>2, <2>3, <2>9, ValueHasherAssumption, RingHistoryAssumption
    <3>2. History!ChangeAfterPlateau(v, e, t)
      BY <2>5, <2>9, <3>1 DEF History!ChangeAfterPlateau, History!Row, Point
    <3> QED
      BY <2>2, <2>5, <3>1, <3>2 DEF History!Next
  <2> QED
    BY <2>1, <2>6, <2>7, <2>8, <2>9, SampleFacts
<1> QED
  BY Invariance, <1>1, <1>2, PTL DEF Spec, ImplementsTagHistory, History!Spec

-----------------------------------------------------------------------------
(* The rows, and a failure that is not yet reported.                         *)

LEMMA InitRowsInv == Init => RowsInv /\ WaitInv
BY InitIndInv, ValueHasherAssumption, RingHistoryAssumption
   DEF Init, RowsInv, WaitInv, UnchangedSuppressed, LastRow, Point, NewHasher

LEMMA RowsStep ==
  ASSUME IndInv, RowsInv, NEW v \in Measures, NEW d \in Steps,
         sample.timestamp + d <= MaxTime,
         AddSample(v, sample.timestamp + d)
  PROVE  RowsInv'
<1> DEFINE n == Len(log)
           t == sample'.timestamp
<1>1. /\ log \in Seq(HashedValue) /\ n \in Nat \ {0} /\ LastRow = log[n]
      /\ \A i \in 1 .. n : log[i].timestamp \in Nat /\ log[i].val \in Measures
      /\ sample.timestamp \in Nat /\ t \in Nat /\ sample.timestamp <= t
  <2>1. log \in Seq(HashedValue) /\ log # <<>> /\ sample \in HashedValue
    BY DEF IndInv, TypeOK, LogInv
  <2>2. t = sample.timestamp + d /\ sample.timestamp \in Nat /\ d \in Nat
    BY <2>1, ValueHasherAssumption, RingHistoryAssumption DEF AddSample, Point, HashedValue
  <2>3. n \in Nat \ {0} /\ LastRow = log[n]
    BY <2>1 DEF LastRow
  <2>4. \A i \in 1 .. n : log[i].timestamp \in Nat /\ log[i].val \in Measures
    <3>1. \A i \in 1 .. n : log[i] \in HashedValue
      BY <2>1
    <3> QED
      BY <3>1 DEF HashedValue
  <2> QED
    BY <2>1, <2>2, <2>3, <2>4
<1>2. StableDelta \in Nat /\ FailureDelta \in Nat
  BY HashUnitAssumption
<1>3. /\ \/ log' = log
         \/ /\ log' = Append(log, Point(v, t))
            /\ v = LastRow.val => t - LastRow.timestamp > RepeatDelta(v)
         \/ /\ v # LastRow.val
            /\ \E e \in LastRow.timestamp .. sample.timestamp :
                 log' = log \o <<Point(LastRow.val, e), Point(v, t)>>
  BY SampleFacts DEF RepeatDelta
<1>4. /\ log[n].timestamp <= t /\ log[n].timestamp <= sample.timestamp
      /\ \A i \in 1 .. n - 1 : log[i].timestamp <= log[i + 1].timestamp
      /\ (n > 1 /\ log[n - 1].val = log[n].val) =>
           log[n].timestamp - log[n - 1].timestamp > RepeatDelta(log[n].val)
      /\ \A i \in 1 .. n - 2 :
           (log[i].val = log[i + 1].val /\ log[i + 1].val = log[i + 2].val) =>
             log[i + 2].timestamp - log[i].timestamp > RepeatDelta(log[i].val)
  <2>1. LastRow.timestamp <= sample.timestamp
    BY SampleFacts
  <2> HIDE DEF t
  <2>2. log[n].timestamp <= t /\ log[n].timestamp <= sample.timestamp
    BY <1>1, <2>1
  <2>3. /\ \A i \in 1 .. n - 1 : log[i].timestamp <= log[i + 1].timestamp
        /\ (n > 1 /\ log[n - 1].val = log[n].val) =>
             log[n].timestamp - log[n - 1].timestamp > RepeatDelta(log[n].val)
    BY <1>1 DEF RowsInv
  <2>4. \A i \in 1 .. n - 2 :
          (log[i].val = log[i + 1].val /\ log[i + 1].val = log[i + 2].val) =>
            log[i + 2].timestamp - log[i].timestamp > RepeatDelta(log[i].val)
    BY DEF RowsInv, UnchangedSuppressed, RepeatDelta
  <2> QED
    BY <2>2, <2>3, <2>4
<1>5. \A x : RepeatDelta(x) \in Nat
  BY <1>2 DEF RepeatDelta
<1> HIDE DEF t, n
<1>6. CASE log' = log
  BY <1>6 DEF RowsInv, UnchangedSuppressed, LastRow
<1>7. CASE /\ log' = Append(log, Point(v, t))
           /\ v = LastRow.val => t - LastRow.timestamp > RepeatDelta(v)
  <2> DEFINE p == Point(v, t)
  <2>1. p \in HashedValue /\ p.val = v /\ p.timestamp = t
    BY <1>1, PointType
  <2> HIDE DEF p
  <2>2. /\ Len(log') = n + 1 /\ log'[n + 1] = p
        /\ \A i \in 1 .. n : log'[i] = log[i]
    BY <1>1, <1>7, <2>1, AppendRows DEF p, n
  <2>3. LastRow' = p /\ log' # log
    BY <1>1, <2>2 DEF LastRow, n
  <2>4. \A i \in 1 .. Len(log') - 1 : log'[i].timestamp <= log'[i + 1].timestamp
    <3> SUFFICES ASSUME NEW i \in 1 .. n
                 PROVE  log'[i].timestamp <= log'[i + 1].timestamp
      BY <1>1, <2>2
    <3>1. CASE i = n
      BY <1>1, <1>4, <2>1, <2>2, <3>1
    <3>2. CASE i # n
      <4>1. i \in 1 .. n - 1 /\ i \in 1 .. n /\ i + 1 \in 1 .. n
        BY <1>1, <3>2
      <4> QED
        BY <1>4, <2>2, <4>1
    <3> QED
      BY <3>1, <3>2
  <2>5. log[n].val = v => t - log[n].timestamp > RepeatDelta(v)
    BY <1>1, <1>7, <2>3
  <2>6. UnchangedSuppressed'
    <3> SUFFICES ASSUME NEW i \in 1 .. n - 1,
                        log'[i].val = log'[i + 1].val, log'[i + 1].val = log'[i + 2].val
                 PROVE  log'[i + 2].timestamp - log'[i].timestamp > RepeatDelta(log'[i].val)
      BY <1>1, <2>2, SMTT(30) DEF UnchangedSuppressed, RepeatDelta
    <3>1. CASE i = n - 1
      <4>1. log'[i] = log[n - 1] /\ log'[i + 1] = log[n] /\ log'[i + 2] = p
        BY <1>1, <2>2, <3>1
      <4>2. log[n].val = v /\ log[n - 1].val = v
        BY <2>1, <4>1
      <4>3. t - log[n].timestamp > RepeatDelta(v) /\ log[n - 1].timestamp <= log[n].timestamp
        BY <1>1, <1>4, <2>5, <3>1, <4>2
      <4>4. /\ n - 1 \in 1 .. n /\ log[n - 1].timestamp \in Nat /\ log[n].timestamp \in Nat
            /\ RepeatDelta(v) \in Nat /\ t \in Nat
        BY <1>1, <1>5, <3>1
      <4>5. t - log[n - 1].timestamp > RepeatDelta(v)
        BY <4>3, <4>4
      <4> QED
        BY <2>1, <4>1, <4>2, <4>5
    <3>2. CASE i # n - 1
      <4>1. i \in 1 .. n - 2 /\ i \in 1 .. n /\ i + 1 \in 1 .. n /\ i + 2 \in 1 .. n
        BY <1>1, <3>2
      <4>2. log'[i] = log[i] /\ log'[i + 1] = log[i + 1] /\ log'[i + 2] = log[i + 2]
        BY <2>2, <4>1
      <4> QED
        BY <1>4, <4>1, <4>2
    <3> QED
      BY <3>1, <3>2
  <2>7. (Len(log') > 1 /\ log'[Len(log') - 1].val = p.val) =>
          p.timestamp - log'[Len(log') - 1].timestamp > RepeatDelta(p.val)
    BY <1>1, <2>1, <2>2, <2>5
  <2> QED
    BY <2>3, <2>4, <2>6, <2>7 DEF RowsInv, RepeatDelta
<1>8. ASSUME v # LastRow.val, NEW e \in LastRow.timestamp .. sample.timestamp,
             log' = log \o <<Point(LastRow.val, e), Point(v, t)>>
      PROVE  RowsInv'
  <2> DEFINE p == Point(LastRow.val, e)
             q == Point(v, t)
  <2>1. /\ p \in HashedValue /\ p.val = LastRow.val /\ p.timestamp = e
        /\ q \in HashedValue /\ q.val = v /\ q.timestamp = t /\ e \in Nat
    <3>1. LastRow.val \in Measures /\ e \in Nat
      BY <1>1
    <3> QED
      BY <1>1, <3>1, PointType
  <2> HIDE DEF p, q
  <2>2. /\ Len(log') = n + 2 /\ log'[n + 1] = p /\ log'[n + 2] = q
        /\ \A i \in 1 .. n : log'[i] = log[i]
    BY <1>1, <1>8, <2>1, AppendRows DEF p, q, n
  <2>3. LastRow' = q
    BY <1>1, <2>2 DEF LastRow
  <2>4. \A i \in 1 .. Len(log') - 1 : log'[i].timestamp <= log'[i + 1].timestamp
    BY <1>1, <1>8, <1>4, <2>1, <2>2
  <2>5. UnchangedSuppressed'
    <3> SUFFICES ASSUME NEW i \in 1 .. n,
                        log'[i].val = log'[i + 1].val, log'[i + 1].val = log'[i + 2].val
                 PROVE  log'[i + 2].timestamp - log'[i].timestamp > RepeatDelta(log'[i].val)
      BY <1>1, <2>2 DEF UnchangedSuppressed, RepeatDelta
    <3>1. i # n
      BY <1>1, <1>8, <2>1, <2>2
    <3>2. CASE i = n - 1
      <4>1. log'[i] = log[n - 1] /\ log'[i + 1] = log[n] /\ log'[i + 2] = p
        BY <1>1, <2>2, <3>2
      <4>2. log[n - 1].val = log[n].val /\ n > 1
        BY <1>1, <2>1, <3>2, <4>1
      <4>3. log[n].timestamp - log[n - 1].timestamp > RepeatDelta(log[n].val)
        BY <1>4, <4>2
      <4>4. /\ n - 1 \in 1 .. n /\ log[n - 1].timestamp \in Nat /\ log[n].timestamp \in Nat
            /\ RepeatDelta(log[n].val) \in Nat /\ log[n].timestamp <= e
        BY <1>1, <1>5, <3>2
      <4>5. e - log[n - 1].timestamp > RepeatDelta(log[n].val)
        BY <2>1, <4>3, <4>4
      <4> QED
        BY <2>1, <4>1, <4>2, <4>5
    <3>3. CASE i < n - 1
      <4>1. i \in 1 .. n - 2 /\ i \in 1 .. n /\ i + 1 \in 1 .. n /\ i + 2 \in 1 .. n
        BY <1>1, <3>3
      <4>2. log'[i] = log[i] /\ log'[i + 1] = log[i + 1] /\ log'[i + 2] = log[i + 2]
        BY <2>2, <4>1
      <4> QED
        BY <1>4, <4>1, <4>2
    <3> QED
      BY <1>1, <3>1, <3>2, <3>3
  <2>6. log'[Len(log') - 1].val # q.val
    BY <1>1, <1>8, <2>1, <2>2
  <2> QED
    BY <2>3, <2>4, <2>5, <2>6 DEF RowsInv
<1> QED
  BY <1>3, <1>6, <1>7, <1>8

LEMMA WaitStep ==
  ASSUME IndInv, WaitInv, NEW v \in Measures, NEW d \in Steps,
         sample.timestamp + d <= MaxTime,
         AddSample(v, sample.timestamp + d)
  PROVE  WaitInv'
<1> DEFINE s == sample.timestamp
           t == s + d
           r == Add(hasher, v, t)
           row == LastRow
<1>1. /\ hasher \in ValueHasher /\ Geometry(hasher) /\ InStep(hasher, row, s)
      /\ log \in Seq(HashedValue) /\ log # <<>> /\ row \in HashedValue
      /\ sample.timestamp \in Nat /\ last_good \in Nat
      /\ HeadSlot.timestamp \in Nat
  <2>1. /\ hasher \in ValueHasher /\ Geometry(hasher) /\ InStep(hasher, row, s)
        /\ log \in Seq(HashedValue) /\ log # <<>> /\ sample \in HashedValue
        /\ last_good \in Nat
    BY DEF IndInv, TypeOK, RingGeometry, LogInv
  <2>2. row \in HashedValue
    BY <2>1 DEF LastRow
  <2> QED
    BY <2>1, <2>2 DEF HeadSlot, ValueHasher, HashedValue
<1>2. s \in Nat /\ d \in Nat /\ t \in Nat /\ s <= t /\ (0 \notin Steps => s < t)
  BY <1>1, ValueHasherAssumption, RingHistoryAssumption
<1>3. /\ hasher' = r.hasher /\ log' = log \o r.before \o r.now
      /\ sample'.val = v /\ sample'.timestamp = t
      /\ last_good' = IF v = Fail THEN last_good ELSE t
  BY DEF AddSample, Point
<1>4. /\ v # Fail => r.hasher.state = "Normal"
      /\ v = Fail => r.hasher.state # "Normal"
      /\ r.hasher.state = "InFail" =>
           /\ r.now = <<>> /\ r.before = <<>>
           /\ \/ /\ hasher.state = "Normal"
                 /\ r.hasher.hashed_values[r.hasher.head].timestamp = t
              \/ /\ r.hasher = hasher
                 /\ t - HeadSlot.timestamp <= FailureDelta
  <2>1. /\ v # Fail => r.hasher.state = "Normal"
        /\ v = Fail => r.hasher.state # "Normal"
        /\ \/ /\ r.now = <<>> /\ r.before = <<>>
              /\ InStep(r.hasher, row, t)
              /\ v # Fail => v = row.val /\ t - row.timestamp <= StableDelta
              /\ r.hasher.state = "InFail" =>
                   \/ /\ hasher.state = "Normal"
                      /\ r.hasher.hashed_values[r.hasher.head].timestamp = t
                   \/ /\ r.hasher = hasher
                      /\ t - HeadSlot.timestamp <= FailureDelta
              /\ r.hasher.state = "FailReported" => hasher.state = "FailReported"
           \/ /\ RowsOf(r, row, s, v, t)
              /\ InStep(r.hasher, Point(v, t), t)
              /\ r.hasher.state # "InFail"
              /\ v = Fail => /\ hasher.state = "InFail"
                             /\ t - HeadSlot.timestamp > FailureDelta
    <3>1. /\ hasher \in ValueHasher /\ Geometry(hasher) /\ InStep(hasher, row, s)
          /\ row \in HashedValue
      BY <1>1
    <3> HIDE DEF row, s, t
    <3> QED
      BY <1>2, <3>1, AddFacts DEF HeadSlot
  <2> HIDE DEF r
  <2> QED
    BY <2>1
<1> HIDE DEF r
<1>5. CASE v # Fail
  BY <1>3, <1>4, <1>5 DEF WaitInv
<1>6. CASE v = Fail
  <2> SUFFICES ASSUME r.hasher.state = "InFail"
               PROVE  /\ t - HeadSlot'.timestamp <= FailureDelta
                      /\ LastRow'.val # Fail =>
                           \E k \in Steps : HeadSlot'.timestamp - last_good <= k
    BY <1>3, <1>4, <1>6 DEF WaitInv
  <2>1. LastRow' = LastRow
    <3>1. r.now = <<>> /\ r.before = <<>>
      BY <1>4
    <3>2. log' = log
      BY <1>1, <1>3, <3>1
    <3> QED
      BY <3>2 DEF LastRow
  <2>2. CASE hasher.state = "Normal" /\ r.hasher.hashed_values[r.hasher.head].timestamp = t
    <3>1. HeadSlot'.timestamp = t
      BY <1>3, <2>2 DEF HeadSlot
    <3>2. LastRow.val # Fail => last_good = s
      BY <2>2 DEF WaitInv
    <3> QED
      BY <1>2, <2>1, <3>1, <3>2, HashUnitAssumption
  <2>3. CASE r.hasher = hasher /\ t - HeadSlot.timestamp <= FailureDelta
    <3>1. HeadSlot' = HeadSlot /\ hasher.state = "InFail"
      BY <1>3, <2>3 DEF HeadSlot
    <3> QED
      BY <2>1, <2>3, <3>1 DEF WaitInv
  <2> QED
    BY <1>4, <2>2, <2>3
<1> QED
  BY <1>5, <1>6

LEMMA RowsInvariance == Spec => [](RowsInv /\ WaitInv)
<1>1. IndInv /\ RowsInv /\ WaitInv /\ [Next]_vars => (RowsInv /\ WaitInv)'
  <2>1. CASE UNCHANGED vars
    BY <2>1 DEF vars, RowsInv, WaitInv, UnchangedSuppressed, HeadSlot, LastRow
  <2>2. ASSUME IndInv, RowsInv, WaitInv, NEW v \in Measures, NEW d \in Steps,
               sample.timestamp + d <= MaxTime,
               AddSample(v, sample.timestamp + d)
        PROVE  (RowsInv /\ WaitInv)'
    BY <2>2, RowsStep, WaitStep
  <2> QED
    BY <2>1, <2>2 DEF Next
<1> QED
  BY Invariance, InitRowsInv, <1>1, PTL DEF Spec

(***************************************************************************)
(* Of three consecutive rows with one value the first and the last are     *)
(* more than STABLE_DELTA (FAILURE_DELTA for a loss) apart, for every      *)
(* stream of samples: what add suppresses is never saved after all.        *)
(***************************************************************************)
THEOREM UnchangedSuppressedHolds == Spec => []UnchangedSuppressed
<1>1. RowsInv => UnchangedSuppressed
  BY DEF RowsInv
<1> QED
  BY RowsInvariance, <1>1, PTL

(***************************************************************************)
(* A tag that was last read more than FAILURE_DELTA and one polling gap    *)
(* ago has the mark of the loss as its last row, whatever the gaps.        *)
(***************************************************************************)
THEOREM LossMarkedInTimeHolds == Spec => []LossMarkedInTime
<1>1. IndInv /\ WaitInv => LossMarkedInTime
  <2> SUFFICES ASSUME IndInv, WaitInv, sample.val = Fail, LastRow.val # Fail
               PROVE  \E d \in Steps : sample.timestamp - last_good <= FailureDelta + d
    BY DEF LossMarkedInTime
  <2>1. /\ hasher.state \in HashState /\ InStep(hasher, LastRow, sample.timestamp)
        /\ sample.timestamp \in Nat /\ last_good \in Nat /\ HeadSlot.timestamp \in Nat
    BY DEF IndInv, TypeOK, LogInv, HeadSlot, ValueHasher, HashedValue
  <2>2. hasher.state = "InFail"
    BY <2>1 DEF InStep, WaitInv, HashState
  <2>3. /\ sample.timestamp - HeadSlot.timestamp <= FailureDelta
        /\ \E d \in Steps : HeadSlot.timestamp - last_good <= d
    BY <2>2 DEF WaitInv
  <2>4. PICK d \in Steps : HeadSlot.timestamp - last_good <= d
    BY <2>3
  <2>5. sample.timestamp - last_good <= FailureDelta + d
    BY <2>1, <2>3, <2>4, ValueHasherAssumption, RingHistoryAssumption, HashUnitAssumption
  <2> QED
    BY <2>5
<1> QED
  BY Invariance, RowsInvariance, <1>1, PTL

-----------------------------------------------------------------------------
(* The window and the rows tell one history.                                 *)

\* The invariants as facts about the ring.
LEMMA TellsParts ==
  ASSUME IndInv, TellsInv
  PROVE  /\ hasher \in ValueHasher /\ Geometry(hasher) /\ Saved \in SUBSET HashedValue
         /\ sample.timestamp \in Nat /\ RingTells(hasher, Saved, sample.timestamp)
<1>1. /\ hasher \in ValueHasher /\ Geometry(hasher) /\ sample.timestamp \in Nat
      /\ log \in Seq(HashedValue) /\ log # <<>>
      /\ InStep(hasher, LastRow, sample.timestamp)
  BY DEF IndInv, TypeOK, RingGeometry, LogInv, HashedValue
<1>2. Saved \in SUBSET HashedValue /\ LastRow \in Saved
  BY <1>1 DEF Saved, LastRow
<1> QED
  BY <1>1, <1>2 DEF RingTells, TellsInv

LEMMA TellsStep ==
  ASSUME IndInv, TellsInv, NEW v \in Measures, NEW d \in Steps,
         sample.timestamp + d <= MaxTime,
         AddSample(v, sample.timestamp + d)
  PROVE  TellsInv'
<1> DEFINE s == sample.timestamp
           t == s + d
           r == Add(hasher, v, t)
<1>1. /\ hasher \in ValueHasher /\ Geometry(hasher) /\ InStep(hasher, LastRow, s)
      /\ log \in Seq(HashedValue) /\ log # <<>> /\ sample \in HashedValue
  BY DEF IndInv, TypeOK, RingGeometry, LogInv
<1>2. s \in Nat /\ d \in Nat /\ t \in Nat /\ s <= t /\ (0 \notin Steps => s < t)
  BY <1>1, RingHistoryAssumption DEF HashedValue
<1>3. hasher' = r.hasher /\ log' = log \o r.before \o r.now /\ sample'.timestamp = t
  BY DEF AddSample, Point
<1>4. r.before \in Seq(HashedValue) /\ r.now \in Seq(HashedValue)
  BY <1>1, <1>2, AddType DEF WellFormed
<1>5. Saved \in SUBSET HashedValue /\ LastRow \in Saved /\ Saved = RowSet(log)
  BY <1>1 DEF Saved, LastRow, RowSet
<1>6. Saved' = Saved \cup Returned(r)
  <2> HIDE DEF r
  <2>1. log \o r.before \in Seq(HashedValue)
    BY <1>1, <1>4
  <2>2. RowSet(log') = (RowSet(log) \cup RowSet(r.before)) \cup RowSet(r.now)
    BY <1>1, <1>3, <1>4, <2>1, JoinedRows
  <2>3. Saved' = RowSet(log')
    BY DEF Saved, RowSet
  <2> QED
    BY <1>5, <2>2, <2>3 DEF Returned
<1>7. RingTells(hasher, Saved, s)
  BY <1>1, <1>5 DEF RingTells, TellsInv
<1> HIDE DEF s, t
<1>8. RingTellsNext(r.hasher, Saved \cup Returned(r), t)
  BY <1>1, <1>2, <1>5, <1>7, SampleTells
<1> QED
  BY <1>3, <1>6, <1>8 DEF RingTellsNext, RingTells, TellsInv

LEMMA InitTells == Init => TellsInv
<1> SUFFICES ASSUME NEW v \in Measures, hasher = NewHasher(v, Start),
                    log = <<Point(v, Start)>>, sample = Point(v, Start)
             PROVE  TellsInv
  BY DEF Init
<1>1. RingTells(hasher, {Point(v, Start)}, Start)
  BY ValueHasherAssumption, NewTells
<1>2. Saved = {Point(v, Start)} /\ sample.timestamp = Start
  BY DEF Saved, Point
<1> QED
  BY <1>1, <1>2 DEF RingTells, TellsInv

LEMMA TellsInvariance == Spec => []TellsInv
<1>1. IndInv /\ TellsInv /\ [Next]_vars => TellsInv'
  <2>1. CASE UNCHANGED vars
    BY <2>1 DEF vars, TellsInv, Saved
  <2>2. ASSUME IndInv, TellsInv, NEW v \in Measures, NEW d \in Steps,
               sample.timestamp + d <= MaxTime,
               AddSample(v, sample.timestamp + d)
        PROVE  TellsInv'
    BY <2>2, TellsStep
  <2> QED
    BY <2>1, <2>2 DEF Next
<1> QED
  BY Invariance, InitTells, <1>1, PTL DEF Spec

\* The window the properties speak of, point by point.
LEMMA WindowPoints ==
  ASSUME IndInv
  PROVE  /\ Len(ConfirmedWindow) = ConfirmedLen(hasher)
         /\ \A i \in 1 .. ConfirmedLen(hasher) :
              ConfirmedWindow[i] = ConfirmedPoints(hasher)[i - 1]
<1>1. hasher \in ValueHasher /\ Geometry(hasher)
  BY DEF IndInv, TypeOK, RingGeometry
<1>2. /\ WindowLen(hasher) \in 1 .. Capacity /\ Capacity \in Nat
      /\ ConfirmedLen(hasher) \in 1 .. Capacity
      /\ \A i \in 0 .. WindowLen(hasher) - 1 : AtOffset(hasher, i) \in HashedValue
  BY <1>1, WindowShape, ConfirmedLenType, HashUnitAssumption DEF ValueHasher
<1>3. /\ Window(hasher) \in Seq(HashedValue)
      /\ Len(Window(hasher)) = WindowLen(hasher)
      /\ \A i \in 1 .. WindowLen(hasher) : Window(hasher)[i] = AtOffset(hasher, i - 1)
  BY <1>2 DEF Window
<1>4. ConfirmedWindow = SubSeq(Window(hasher), 1, ConfirmedLen(hasher))
  BY DEF ConfirmedWindow, ConfirmedLen
<1>5. ConfirmedLen(hasher) <= WindowLen(hasher)
  BY <1>2 DEF ConfirmedLen
<1> QED
  BY <1>2, <1>3, <1>4, <1>5, SubSeqProperties DEF ConfirmedPoints

(***************************************************************************)
(* The inductive invariant of all theorems of this module: the indices,    *)
(* the rows, a failure that waits to be reported, and the points of the    *)
(* window against the points saved.                                        *)
(***************************************************************************)
THEOREM HistoryInvariance == Spec => []HistoryInv
<1>1. IndInv /\ RowsInv /\ WaitInv /\ TellsInv => HistoryInv
  BY DEF HistoryInv
<1> QED
  BY Invariance, RowsInvariance, TellsInvariance, <1>1, PTL

(***************************************************************************)
(* Every failed read that the confirmed window of the ring holds was saved *)
(* as a loss: the slot that roll_back leaves behind is never reached by a  *)
(* query, for every capacity, also when the ring has wrapped.              *)
(***************************************************************************)
THEOREM NoNoiseServedHolds == Spec => []NoNoiseServed
<1>1. IndInv /\ TellsInv => NoNoiseServed
  <2> SUFFICES ASSUME IndInv, TellsInv, NEW i \in 1 .. Len(ConfirmedWindow),
                      ConfirmedWindow[i].val = Fail
               PROVE  ConfirmedWindow[i] \in Saved
    BY DEF NoNoiseServed
  <2>1. i \in 1 .. ConfirmedLen(hasher) /\ i - 1 \in 0 .. ConfirmedLen(hasher) - 1
    BY WindowPoints
  <2> QED
    BY <2>1, WindowPoints DEF TellsInv, Tells
<1> QED
  BY Invariance, TellsInvariance, <1>1, PTL

(***************************************************************************)
(* The last point of every plateau that ended within the window is a row:  *)
(* no call of add forgets the silent end of a plateau, whatever noise lies *)
(* between (current_and_previous_val, is_resolving_duplicate).             *)
(***************************************************************************)
THEOREM PlateauEndsSavedHolds == Spec => []PlateauEndsSaved
<1>1. IndInv /\ TellsInv => PlateauEndsSaved
  <2> SUFFICES ASSUME IndInv, TellsInv, NEW i \in 1 .. Len(ConfirmedWindow) - 1,
                      ConfirmedWindow[i].val # ConfirmedWindow[i + 1].val
               PROVE  ConfirmedWindow[i] \in Saved
    BY DEF PlateauEndsSaved
  <2>0. ConfirmedLen(hasher) \in Nat
    BY ConfirmedPointsType DEF IndInv, TypeOK, RingGeometry
  <2>1. /\ i \in 1 .. ConfirmedLen(hasher) /\ i + 1 \in 1 .. ConfirmedLen(hasher)
        /\ (i + 1) - 1 = (i - 1) + 1
        /\ i - 1 \in 0 .. ConfirmedLen(hasher) - 2
    BY <2>0, WindowPoints
  <2>2. /\ ConfirmedWindow[i] = ConfirmedPoints(hasher)[i - 1]
        /\ ConfirmedWindow[i + 1] = ConfirmedPoints(hasher)[(i - 1) + 1]
    BY <2>1, WindowPoints
  <2> QED
    BY <2>1, <2>2 DEF TellsInv, Tells
<1> QED
  BY Invariance, TellsInvariance, <1>1, PTL

(***************************************************************************)
(* The ring and the table tell one history, when time advances between two *)
(* samples of a tag: each row lies on a plateau of the ring with its       *)
(* value, every plateau of the ring that ended has its end in the table,   *)
(* and no noise is served. Two samples of one second can end a plateau at  *)
(* the second it began, and a saved point then shares its timestamp with   *)
(* the next slot.                                                          *)
(***************************************************************************)
THEOREM RingMatchesTableHolds ==
  ASSUME 0 \notin Steps
  PROVE  Spec => []RingMatchesTable
<1>1. IndInv /\ TellsInv => SavedInWindow
  <2> SUFFICES ASSUME IndInv, TellsInv, NEW p \in Saved,
                      ConfirmedWindow[1].timestamp <= p.timestamp
               PROVE  \E i \in 1 .. Len(ConfirmedWindow) :
                        /\ ConfirmedWindow[i].val = p.val
                        /\ p.timestamp <= ConfirmedWindow[i].timestamp
                        /\ i > 1 => ConfirmedWindow[i - 1].timestamp < p.timestamp
    BY DEF SavedInWindow
  <2> DEFINE n == ConfirmedLen(hasher)
             w == ConfirmedPoints(hasher)
  <2>1. n \in Nat \ {0}
    BY ConfirmedPointsType DEF IndInv, TypeOK, RingGeometry
  <2>2. Len(ConfirmedWindow) = n /\ \A i \in 1 .. n : ConfirmedWindow[i] = w[i - 1]
    BY WindowPoints
  <2>3. Tells(w, n, Saved, sample.timestamp)
    BY DEF TellsInv
  <2> HIDE DEF n, w
  <2>4. w[0].timestamp <= p.timestamp
    <3>1. 1 \in 1 .. n /\ 1 - 1 = 0
      BY <2>1
    <3> QED
      BY <2>2, <3>1
  <2>5. PICK j \in 0 .. n - 1 : /\ w[j].val = p.val /\ p.timestamp <= w[j].timestamp
                                /\ j > 0 => w[j - 1].timestamp < p.timestamp
    BY <2>3, <2>4 DEF Tells
  <2>6. j + 1 \in 1 .. n /\ ConfirmedWindow[j + 1] = w[j]
    <3>1. j + 1 \in 1 .. n /\ (j + 1) - 1 = j
      BY <2>1
    <3> QED
      BY <2>2, <3>1
  <2>7. j + 1 > 1 => j > 0 /\ ConfirmedWindow[(j + 1) - 1] = w[j - 1]
    <3> HAVE j + 1 > 1
    <3>1. (j + 1) - 1 \in 1 .. n /\ ((j + 1) - 1) - 1 = j - 1 /\ j > 0
      BY <2>1
    <3> QED
      BY <2>2, <3>1
  <2> QED
    BY <2>2, <2>5, <2>6, <2>7
<1> QED
  BY Invariance, TellsInvariance, NoNoiseServedHolds, PlateauEndsSavedHolds, <1>1, PTL
     DEF RingMatchesTable

(***************************************************************************)
(* From tail to head the timestamps never fall, for every capacity and     *)
(* every stream of samples whose clock does not step back: what the binary *)
(* search of get_hashed relies on.                                         *)
(***************************************************************************)
THEOREM WindowChronologicalHolds == Spec => []WindowChronological
<1>1. IndInv /\ TellsInv => WindowChronological
  <2> SUFFICES ASSUME IndInv, TellsInv, NEW i \in 1 .. WindowLen(hasher) - 1
               PROVE  Window(hasher)[i].timestamp <= Window(hasher)[i + 1].timestamp
    BY DEF WindowChronological
  <2> DEFINE n == WindowLen(hasher)
  <2>0. /\ hasher \in ValueHasher /\ Geometry(hasher) /\ Saved \in SUBSET HashedValue
        /\ sample.timestamp \in Nat /\ RingTells(hasher, Saved, sample.timestamp)
    BY TellsParts
  <2>1. n \in Nat
    BY WindowShape, HashUnitAssumption DEF IndInv, TypeOK, RingGeometry
  <2>2. /\ i \in 1 .. n /\ i + 1 \in 1 .. n /\ (i + 1) - 1 = i
        /\ i - 1 \in 0 .. n - 1 /\ i \in 0 .. n - 1 /\ i - 1 < i
    BY <2>1
  <2>3. /\ Window(hasher)[i] = AtOffset(hasher, i - 1)
        /\ Window(hasher)[i + 1] = AtOffset(hasher, i)
    BY <2>2 DEF Window
  <2> QED
    BY <2>0, <2>2, <2>3, WindowSorted
<1> QED
  BY Invariance, TellsInvariance, <1>1, PTL

(***************************************************************************)
(* The binary search finds its bounds in every window, whatever its length *)
(* and wherever the ring wraps, and get_hashed answers each query with     *)
(* exactly the points of the window that lie in the interval.              *)
(***************************************************************************)
THEOREM QueryExactHolds == Spec => []QueryExact
<1>1. IndInv /\ TellsInv => QueryExact
  <2> DEFINE w == Window(hasher)
             n == WindowLen(hasher)
             inside(i, from, to) == from <= w[i].timestamp /\ w[i].timestamp < to
             within(i, from, to) == /\ from <= AtOffset(hasher, i).timestamp
                                    /\ AtOffset(hasher, i).timestamp < to
  <2> SUFFICES ASSUME IndInv, TellsInv,
                      NEW from \in 0 .. MaxTime + 1, NEW to \in 0 .. MaxTime + 1
               PROVE  IF \/ from < w[1].timestamp
                         \/ n = 1 /\ ~hasher.ring_finished
                         \/ \A i \in 1 .. n : ~inside(i, from, to)
                        THEN GetHashed(hasher, from, to) = <<>>
                        ELSE \E first, last \in 1 .. n :
                               /\ \A i \in 1 .. n : inside(i, from, to) <=> i \in first .. last
                               /\ GetHashed(hasher, from, to)
                                    = <<[i \in 1 .. last + 1 - first |-> w[first + i - 1]]>>
    BY DEF QueryExact
  <2>0. /\ hasher \in ValueHasher /\ Geometry(hasher) /\ Saved \in SUBSET HashedValue
        /\ sample.timestamp \in Nat /\ RingTells(hasher, Saved, sample.timestamp)
    BY TellsParts
  <2>1. from \in Nat /\ to \in Nat
    BY ValueHasherAssumption, RingHistoryAssumption
  <2>2. n \in Nat \ {0}
    BY WindowShape, HashUnitAssumption DEF IndInv, TypeOK, RingGeometry
  <2>3. \A i \in 1 .. n : w[i] = AtOffset(hasher, i - 1)
    BY DEF Window
  <2>4. w[1] = AtOffset(hasher, 0)
    BY <2>2, <2>3
  <2>5. \A i \in 1 .. n : i - 1 \in 0 .. n - 1 /\ (inside(i, from, to) <=> within(i - 1, from, to))
    BY <2>2, <2>3
  <2>6. \A j \in 0 .. n - 1 : j + 1 \in 1 .. n /\ (within(j, from, to) <=> inside(j + 1, from, to))
    <3> SUFFICES ASSUME NEW j \in 0 .. n - 1
                 PROVE  j + 1 \in 1 .. n /\ (within(j, from, to) <=> inside(j + 1, from, to))
      OBVIOUS
    <3>1. j + 1 \in 1 .. n /\ (j + 1) - 1 = j
      BY <2>2
    <3> QED
      BY <2>3, <3>1
  <2>7. IF \/ from < AtOffset(hasher, 0).timestamp
           \/ n = 1 /\ ~hasher.ring_finished
           \/ \A i \in 0 .. n - 1 : ~within(i, from, to)
          THEN GetHashed(hasher, from, to) = <<>>
          ELSE \E b, e \in 0 .. n :
                 /\ b < e
                 /\ \A i \in 0 .. n - 1 : within(i, from, to) <=> i \in b .. e - 1
                 /\ GetHashed(hasher, from, to) = <<Cut(hasher, b, e)>>
    BY <2>0, <2>1, QueryOf
  <2> HIDE DEF w, n, inside, within
  <2>8. (\A i \in 1 .. n : ~inside(i, from, to)) <=> (\A i \in 0 .. n - 1 : ~within(i, from, to))
    BY <2>5, <2>6
  <2>9. ASSUME NEW b \in 0 .. n, NEW e \in 0 .. n, b < e,
               \A i \in 0 .. n - 1 : within(i, from, to) <=> i \in b .. e - 1
        PROVE  \E first, last \in 1 .. n :
                 /\ \A i \in 1 .. n : inside(i, from, to) <=> i \in first .. last
                 /\ Cut(hasher, b, e) = [i \in 1 .. last + 1 - first |-> w[first + i - 1]]
    <3>1. b + 1 \in 1 .. n /\ e \in 1 .. n /\ b \in Nat /\ e \in Nat
      BY <2>2, <2>9
    <3>2. \A i \in 1 .. n : inside(i, from, to) <=> i \in b + 1 .. e
      <4> SUFFICES ASSUME NEW i \in 1 .. n PROVE inside(i, from, to) <=> i \in b + 1 .. e
        OBVIOUS
      <4>1. within(i - 1, from, to) <=> i - 1 \in b .. e - 1
        BY <2>5, <2>9
      <4>2. i - 1 \in b .. e - 1 <=> i \in b + 1 .. e
        BY <2>2, <3>1
      <4> QED
        BY <2>5, <4>1, <4>2
    <3>3. Cut(hasher, b, e) = [i \in 1 .. e + 1 - (b + 1) |-> w[(b + 1) + i - 1]]
      <4>1. e + 1 - (b + 1) = e - b
        BY <3>1
      <4>2. \A i \in 1 .. e - b : w[(b + 1) + i - 1] = AtOffset(hasher, b + i - 1)
        <5> SUFFICES ASSUME NEW i \in 1 .. e - b
                     PROVE  w[(b + 1) + i - 1] = AtOffset(hasher, b + i - 1)
          OBVIOUS
        <5>1. (b + 1) + i - 1 \in 1 .. n /\ ((b + 1) + i - 1) - 1 = b + i - 1
          BY <2>2, <3>1
        <5> QED
          BY <2>3, <5>1
      <4> QED
        BY <4>1, <4>2 DEF Cut
    <3> QED
      BY <3>1, <3>2, <3>3
  <2>10. CASE \/ from < w[1].timestamp
              \/ n = 1 /\ ~hasher.ring_finished
              \/ \A i \in 1 .. n : ~inside(i, from, to)
    BY <2>4, <2>7, <2>8, <2>10
  <2>11. CASE ~(\/ from < w[1].timestamp
                \/ n = 1 /\ ~hasher.ring_finished
                \/ \A i \in 1 .. n : ~inside(i, from, to))
    <3>1. PICK b \in 0 .. n, e \in 0 .. n :
            /\ b < e
            /\ \A i \in 0 .. n - 1 : within(i, from, to) <=> i \in b .. e - 1
            /\ GetHashed(hasher, from, to) = <<Cut(hasher, b, e)>>
      BY <2>4, <2>7, <2>8, <2>11
    <3>2. PICK first \in 1 .. n, last \in 1 .. n :
            /\ \A i \in 1 .. n : inside(i, from, to) <=> i \in first .. last
            /\ Cut(hasher, b, e) = [i \in 1 .. last + 1 - first |-> w[first + i - 1]]
      BY <2>9, <3>1
    <3> QED
      BY <2>11, <3>1, <3>2
  <2> QED
    BY <2>10, <2>11
<1> QED
  BY Invariance, TellsInvariance, <1>1, PTL
=============================================================================
