------------------------------- MODULE HashUnit -------------------------------
(***************************************************************************)
(* ValueHasher of db/hasher/hash_unit.rs: the ring of recent points of one *)
(* tag, which also decides which samples are worth a row of the database.  *)
(*                                                                         *)
(* A hasher is a record with the fields of the Rust struct; each method    *)
(* that takes &mut self is an operator from a hasher to a hasher, and add  *)
(* returns the new hasher with the two optional points it hands back.      *)
(* An Option is a sequence of length 0 or 1, so that the caller's          *)
(* [before, now].flatten() is  before \o now.                              *)
(*                                                                         *)
(* An operator marked "Mutant" is a plausible bug of the definition that   *)
(* follows it.  Nothing uses it: PROJECT.json names the property that fails*)
(* when it takes that definition's place.                                  *)
(***************************************************************************)
EXTENDS Integers, Sequences

CONSTANTS
  Capacity,      \* slots of the ring (MAX_PONT_IN_WEEK in hash_master.rs)
  Values,        \* the measure values of a successful read
  Fail,          \* f64::MIN, the measure value of a failed read
  Zero,          \* 0.0, the value of a slot never written
  StableDelta,   \* STABLE_DELTA, in seconds
  FailureDelta   \* FAILURE_DELTA, in seconds

ASSUME HashUnitAssumption ==
  /\ Capacity \in Nat /\ Capacity > 1
  /\ Zero \in Values
  /\ Fail \notin Values
  /\ StableDelta \in Nat
  /\ FailureDelta \in Nat

Measures == Values \cup {Fail}
Slots == 0 .. Capacity - 1
HashedValue == [val : Measures, timestamp : Nat]
HashState == {"Normal", "InFail", "FailReported"}

ValueHasher ==
  [hashed_values : [Slots -> HashedValue],
   current : 0 .. Capacity,
   last_emitted_ts : Nat,
   head : Slots,
   tail : Slots,
   ring_finished : BOOLEAN,
   is_resolving_duplicate : BOOLEAN,
   state : HashState]

Point(v, t) == [val |-> v, timestamp |-> t]

NewHasher(v, t) ==
  [hashed_values |-> [i \in Slots |-> IF i = 0 THEN Point(v, t) ELSE Point(Zero, 0)],
   current |-> 0,
   last_emitted_ts |-> t,
   head |-> 0,
   tail |-> 0,
   ring_finished |-> FALSE,
   is_resolving_duplicate |-> FALSE,
   state |-> "Normal"]

-----------------------------------------------------------------------------
(* The moves of the ring.                                                    *)

SlotAfter(i) == (i + 1) % Capacity
SlotBefore(i) == IF i = 0 THEN Capacity - 1 ELSE i - 1

\* Counts the slots written until the ring has been filled once.
Advance(h) ==
  IF h.ring_finished
    THEN h
    ELSE IF h.current + 1 = Capacity
           THEN [h EXCEPT !.current = @ + 1, !.ring_finished = TRUE]
           ELSE [h EXCEPT !.current = @ + 1]

\* Moves head to the next slot; once the ring is full, tail keeps ahead of it.
GoAhead(h) ==
  LET next == SlotAfter(h.head)
  IN  [h EXCEPT !.head = next,
                !.tail = IF h.ring_finished THEN (Capacity + next + 1) % Capacity ELSE @]

\* Mutant: tail goes back with head, onto the slot of the noise.
RollBackBoth(h) ==
  [h EXCEPT !.head = IF h.ring_finished THEN SlotBefore(@)
                     ELSE IF @ # 0 THEN @ - 1 ELSE 0,
            !.tail = IF h.ring_finished THEN SlotBefore(@) ELSE @]

\* Moves head back over a slot that turned out to be noise; tail stays.
RollBack(h) ==
  [h EXCEPT !.head = IF h.ring_finished THEN SlotBefore(@)
                     ELSE IF @ # 0 THEN @ - 1 ELSE 0]

\* advance, go_ahead and the write of the new head slot: every branch of add that
\* opens a slot does the three in this order.
PushSlot(h, v, t) ==
  LET g == GoAhead(Advance(h))
  IN  [g EXCEPT !.hashed_values[g.head] = Point(v, t)]

-----------------------------------------------------------------------------
(* What a call of add hands back.                                            *)

Nothing(h) == [hasher |-> h, now |-> <<>>, before |-> <<>>]

CurrentVal(h) ==
  [hasher |-> h, now |-> <<h.hashed_values[h.head]>>, before |-> <<>>]

\* Mutant: the end of the plateau goes out after the new point.
CurrentAndPreviousValSwapped(h) ==
  IF h.head = 0 /\ ~h.ring_finished
    THEN Nothing(h)
    ELSE [hasher |-> h,
          now    |-> <<h.hashed_values[SlotBefore(h.head)]>>,
          before |-> <<h.hashed_values[h.head]>>]

CurrentAndPreviousVal(h) ==
  IF h.head = 0 /\ ~h.ring_finished
    THEN Nothing(h)
    ELSE [hasher |-> h,
          now    |-> <<h.hashed_values[h.head]>>,
          before |-> <<h.hashed_values[SlotBefore(h.head)]>>]

\* Both branches that close a plateau: the end of a silent plateau goes out
\* with the new point, and the duplicate flag is dropped.
CloseDuplicate(h) ==
  LET clean == [h EXCEPT !.is_resolving_duplicate = FALSE]
  IN  IF h.is_resolving_duplicate THEN CurrentAndPreviousVal(clean) ELSE CurrentVal(h)

-----------------------------------------------------------------------------
(* The four branches of add.                                                 *)

\* Mutant: a heartbeat does not restart the count of StableDelta.
AddNormalHeartbeatForgets(h, v, t) ==
  IF h.hashed_values[h.head].val = v
    THEN IF t - h.last_emitted_ts > StableDelta
           THEN CurrentVal([PushSlot(h, v, t) EXCEPT !.is_resolving_duplicate = FALSE])
           ELSE Nothing([h EXCEPT !.is_resolving_duplicate = TRUE,
                                  !.hashed_values[h.head].timestamp = t])
    ELSE CloseDuplicate([PushSlot(h, v, t) EXCEPT !.last_emitted_ts = t])

\* Mutant: the age is that of the last sample, not of the last row.
AddNormalAgeOfSample(h, v, t) ==
  IF h.hashed_values[h.head].val = v
    THEN IF t - h.hashed_values[h.head].timestamp > StableDelta
           THEN CurrentVal([PushSlot(h, v, t) EXCEPT !.last_emitted_ts = t,
                                                     !.is_resolving_duplicate = FALSE])
           ELSE Nothing([h EXCEPT !.is_resolving_duplicate = TRUE,
                                  !.hashed_values[h.head].timestamp = t])
    ELSE CloseDuplicate([PushSlot(h, v, t) EXCEPT !.last_emitted_ts = t])

AddNormal(h, v, t) ==
  IF h.hashed_values[h.head].val = v
    THEN IF t - h.last_emitted_ts > StableDelta
           THEN CurrentVal([PushSlot(h, v, t) EXCEPT !.last_emitted_ts = t,
                                                     !.is_resolving_duplicate = FALSE])
           ELSE Nothing([h EXCEPT !.is_resolving_duplicate = TRUE,
                                  !.hashed_values[h.head].timestamp = t])
    ELSE CloseDuplicate([PushSlot(h, v, t) EXCEPT !.last_emitted_ts = t])

\* Mutant: the slot of the noise is kept.
AddAfterNoiceKeepsSlot(h, v, t) == AddNormal([h EXCEPT !.state = "Normal"], v, t)

AddAfterNoice(h, v, t) ==
  LET normal == [h EXCEPT !.state = "Normal",
                          !.current = IF h.ring_finished THEN @ ELSE @ - 1]
  IN  AddNormal(RollBack(normal), v, t)

\* Mutant: the recovered value is not handed back.
CleanFailReportSilent(h, v, t) ==
  Nothing([PushSlot(h, v, t) EXCEPT !.state = "Normal",
                                    !.is_resolving_duplicate = FALSE,
                                    !.last_emitted_ts = t])

CleanFailReport(h, v, t) ==
  CurrentVal([PushSlot(h, v, t) EXCEPT !.state = "Normal",
                                       !.is_resolving_duplicate = FALSE,
                                       !.last_emitted_ts = t])

\* Mutant: every failed read stamps the slot anew.
AddFailRestamps(h, v, t) ==
  LET g == IF h.state = "Normal"
             THEN [PushSlot(h, v, t) EXCEPT !.state = "InFail"]
             ELSE h
  IN  IF h.state # "FailReported"
         /\ t - g.hashed_values[g.head].timestamp > FailureDelta
        THEN CloseDuplicate([g EXCEPT !.hashed_values[g.head].timestamp = t,
                                      !.state = "FailReported"])
        ELSE Nothing([g EXCEPT !.hashed_values[g.head].timestamp = t])

\* Mutant: the failure is timed from the last row, not from its first read.
AddFailAgeOfRow(h, v, t) ==
  LET g == IF h.state = "Normal"
             THEN [PushSlot(h, v, t) EXCEPT !.state = "InFail"]
             ELSE h
  IN  IF h.state # "FailReported" /\ t - g.last_emitted_ts > FailureDelta
        THEN CloseDuplicate([g EXCEPT !.hashed_values[g.head].timestamp = t,
                                      !.state = "FailReported"])
        ELSE Nothing(g)

\* A failed read opens a slot once; the slot keeps the time of the first failure
\* until the failure has lasted FailureDelta, and is then stamped and reported.
AddFail(h, v, t) ==
  LET g == IF h.state = "Normal"
             THEN [PushSlot(h, v, t) EXCEPT !.state = "InFail"]
             ELSE h
  IN  IF h.state # "FailReported"
         /\ t - g.hashed_values[g.head].timestamp > FailureDelta
        THEN CloseDuplicate([g EXCEPT !.hashed_values[g.head].timestamp = t,
                                      !.state = "FailReported"])
        ELSE Nothing(g)

Add(h, v, t) ==
  CASE v = Fail                                -> AddFail(h, v, t)
    [] v # Fail /\ h.state = "Normal"          -> AddNormal(h, v, t)
    [] v # Fail /\ h.state = "InFail"          -> AddAfterNoice(h, v, t)
    [] v # Fail /\ h.state = "FailReported"    -> CleanFailReport(h, v, t)

-----------------------------------------------------------------------------
(* Queries.  Offsets count from the oldest slot: offset 0 is tail.           *)

WindowLen(h) == ((h.head + Capacity - h.tail) % Capacity) + 1
AtOffset(h, i) == h.hashed_values[(h.tail + i) % Capacity]
Window(h) == [i \in 1 .. WindowLen(h) |-> AtOffset(h, i - 1)]

\* Mutant: the first offset whose timestamp is above target.
UpperBoundRing(h, target) ==
  LET search[lr \in (0 .. Capacity) \X (0 .. Capacity)] ==
        LET left  == lr[1]
            right == lr[2]
            mid   == left + (right - left) \div 2
        IN  IF left >= right THEN left
            ELSE IF AtOffset(h, mid).timestamp <= target
                   THEN search[<<mid + 1, right>>]
                   ELSE search[<<left, mid>>]
  IN  search[<<0, WindowLen(h)>>]

\* The binary search of the first offset whose timestamp is not below target;
\* search[<<l, r>>] is what the loop returns from left = l, right = r.
LowerBoundRing(h, target) ==
  LET search[lr \in (0 .. Capacity) \X (0 .. Capacity)] ==
        LET left  == lr[1]
            right == lr[2]
            mid   == left + (right - left) \div 2
        IN  IF left >= right THEN left
            ELSE IF AtOffset(h, mid).timestamp < target
                   THEN search[<<mid + 1, right>>]
                   ELSE search[<<left, mid>>]
  IN  search[<<0, WindowLen(h)>>]

\* Mutant: answers queries that begin before the window.
GetHashedOlderToo(h, from, to) ==
  LET first == LowerBoundRing(h, from)
      last  == LowerBoundRing(h, to)
  IN  IF from >= to \/ first = last
        THEN <<>>
        ELSE <<[i \in 1 .. last - first |-> AtOffset(h, first + i - 1)]>>

\* The points at the offsets first .. last - 1, without slots never written.
PointsBetween(h, first, last) ==
  LET upto[i \in first .. last] ==
        IF i = first THEN <<>>
        ELSE IF AtOffset(h, i - 1).timestamp = 0
               THEN upto[i - 1]
               ELSE Append(upto[i - 1], AtOffset(h, i - 1))
  IN  upto[last]

\* <<>> is None, <<points>> is Some(points): what the ring answers for [from, to).
GetHashed(h, from, to) ==
  LET first == LowerBoundRing(h, from)
      last  == LowerBoundRing(h, to)
  IN  IF \/ from >= to
         \/ h.head = h.tail /\ ~h.ring_finished
         \/ from < h.hashed_values[h.tail].timestamp
         \/ first = last
        THEN <<>>
        ELSE <<PointsBetween(h, first, last)>>

-----------------------------------------------------------------------------
(* How the indices fit together, what every method relies on: see            *)
(* RingGeometry of ValueHasher.                                              *)

Geometry(h) ==
  IF h.ring_finished
    THEN \/ h.tail = SlotAfter(h.head)
         \/ h.tail = SlotAfter(SlotAfter(h.head)) /\ h.state # "InFail"
    ELSE /\ h.tail = 0 /\ h.current = h.head
         /\ h.state = "InFail" => h.head > 0

\* The window without the slot of a failure that is not yet reported.
ConfirmedLen(h) == IF h.state = "InFail" THEN WindowLen(h) - 1 ELSE WindowLen(h)
LastConfirmed(h) == AtOffset(h, ConfirmedLen(h) - 1)
=============================================================================
