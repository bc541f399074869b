--------------------------- MODULE HashUnitProofs ---------------------------
(***************************************************************************)
(* Lemmas about the methods of ValueHasher, for every ring of at least two *)
(* slots: what each move does to the fields, and that add keeps a hasher   *)
(* in its type and its indices fit together.                               *)
(***************************************************************************)
EXTENDS RingHistory, NaturalsInduction, WellFoundedInduction, TLAPS

-----------------------------------------------------------------------------
(* The arithmetic of the ring.                                               *)

\* Remainders of numbers below twice the divisor.
LEMMA SmallRemainder ==
  ASSUME NEW C \in Nat \ {0}
  PROVE  /\ \A x \in 0 .. C - 1 : x % C = x
         /\ \A x \in C .. 2 * C - 1 : x % C = x - C
<1>1. ASSUME NEW x \in 0 .. C - 1 PROVE x % C = x
  OBVIOUS
<1>2. ASSUME NEW x \in C .. 2 * C - 1 PROVE x % C = x - C
  OBVIOUS
<1> QED
  BY <1>1, <1>2

\* The successor of a slot is another slot, and SlotBefore undoes it.
LEMMA SlotNeighbours ==
  ASSUME NEW i \in Slots
  PROVE  /\ SlotAfter(i) \in Slots /\ SlotAfter(i) # i
         /\ SlotAfter(i) = IF i = Capacity - 1 THEN 0 ELSE i + 1
         /\ SlotBefore(SlotAfter(i)) = i
         /\ SlotBefore(i) \in Slots /\ SlotBefore(i) # i
         /\ SlotAfter(SlotBefore(i)) = i
<1>1. \A j \in Slots : SlotAfter(j) = IF j = Capacity - 1 THEN 0 ELSE j + 1
  BY SmallRemainder, HashUnitAssumption DEF SlotAfter, Slots
<1> QED
  BY <1>1, HashUnitAssumption DEF SlotBefore, Slots

\* The formula of go_ahead for tail is the successor of head.
LEMMA TailFormula ==
  ASSUME NEW i \in Slots
  PROVE  (Capacity + i + 1) % Capacity = SlotAfter(i)
<1>1. CASE i = Capacity - 1
  <2>1. Capacity + i + 1 = 2 * Capacity
    BY <1>1, HashUnitAssumption DEF Slots
  <2>2. (2 * Capacity) % Capacity = 0
    BY HashUnitAssumption
  <2> QED
    BY <1>1, <2>1, <2>2, SlotNeighbours
<1>2. CASE i # Capacity - 1
  <2>1. Capacity + i + 1 \in Capacity .. 2 * Capacity - 1
    BY <1>2, HashUnitAssumption DEF Slots
  <2>2. (Capacity + i + 1) % Capacity = (Capacity + i + 1) - Capacity
    BY <2>1, SmallRemainder, HashUnitAssumption
  <2>3. (Capacity + i + 1) - Capacity = i + 1
    BY HashUnitAssumption DEF Slots
  <2> QED
    BY <1>2, <2>2, <2>3, SlotNeighbours
<1> QED
  BY <1>1, <1>2

-----------------------------------------------------------------------------
(* What the moves of the ring do to the fields of a hasher.                  *)

LEMMA PointType ==
  ASSUME NEW v \in Measures, NEW t \in Nat
  PROVE  Point(v, t) \in HashedValue /\ Point(v, t).val = v /\ Point(v, t).timestamp = t
BY DEF Point, HashedValue

\* advance touches current and ring_finished only, and never counts past the ring.
LEMMA AdvanceFacts ==
  ASSUME NEW h \in ValueHasher, Geometry(h)
  PROVE  LET g == Advance(h)
         IN  /\ g \in ValueHasher
             /\ g.head = h.head /\ g.tail = h.tail
             /\ g.hashed_values = h.hashed_values
             /\ g.state = h.state
             /\ g.last_emitted_ts = h.last_emitted_ts
             /\ g.is_resolving_duplicate = h.is_resolving_duplicate
             /\ ~g.ring_finished => /\ ~h.ring_finished
                                    /\ g.current = h.current + 1
                                    /\ h.head + 1 < Capacity
             /\ g.ring_finished => h.ring_finished \/ h.head = Capacity - 1
<1>1. CASE h.ring_finished
  BY <1>1 DEF Advance
<1>2. CASE ~h.ring_finished /\ h.current + 1 = Capacity
  <2>1. [h EXCEPT !.current = @ + 1] \in ValueHasher
    BY <1>2, HashUnitAssumption DEF ValueHasher
  <2> DEFINE g == [[h EXCEPT !.current = @ + 1] EXCEPT !.ring_finished = TRUE]
  <2>2. Advance(h) = g
    BY <1>2 DEF Advance
  <2>3. g \in ValueHasher /\ g.ring_finished
    BY <2>1 DEF ValueHasher
  <2>4. h.head = Capacity - 1
    BY <1>2, HashUnitAssumption DEF Geometry, ValueHasher, Slots
  <2> QED
    BY <2>2, <2>3, <2>4 DEF ValueHasher
<1>3. CASE ~h.ring_finished /\ h.current + 1 # Capacity
  <2>1. Advance(h) = [h EXCEPT !.current = @ + 1]
    BY <1>3 DEF Advance
  <2>2. h.current = h.head /\ h.head \in Slots /\ h.head + 1 < Capacity
    BY <1>3, HashUnitAssumption DEF Geometry, ValueHasher, Slots
  <2>3. [h EXCEPT !.current = @ + 1] \in ValueHasher
    BY <2>2, HashUnitAssumption DEF ValueHasher
  <2> QED
    BY <1>3, <2>1, <2>2, <2>3 DEF ValueHasher
<1> QED
  BY <1>1, <1>2, <1>3

\* go_ahead opens the next slot; tail follows once the ring is full.
LEMMA GoAheadFacts ==
  ASSUME NEW h \in ValueHasher
  PROVE  LET g == GoAhead(h)
         IN  /\ g \in ValueHasher
             /\ g.head = SlotAfter(h.head)
             /\ h.ring_finished => g.tail = SlotAfter(SlotAfter(h.head))
             /\ ~h.ring_finished => g.tail = h.tail
             /\ g.ring_finished = h.ring_finished /\ g.current = h.current
             /\ g.hashed_values = h.hashed_values
             /\ g.state = h.state
             /\ g.last_emitted_ts = h.last_emitted_ts
             /\ g.is_resolving_duplicate = h.is_resolving_duplicate
<1> DEFINE next == SlotAfter(h.head)
           moved == [h EXCEPT !.head = next]
           last == IF h.ring_finished THEN (Capacity + next + 1) % Capacity ELSE h.tail
           g == [moved EXCEPT !.tail = last]
<1>1. next \in Slots /\ h.tail \in Slots
  BY SlotNeighbours DEF ValueHasher
<1>2. (Capacity + next + 1) % Capacity = SlotAfter(next) /\ SlotAfter(next) \in Slots
  BY <1>1, TailFormula, SlotNeighbours
<1>3. GoAhead(h) = g
  BY DEF GoAhead
<1>4. last \in Slots
  BY <1>1, <1>2
<1> HIDE DEF next, last
<1>5. moved \in ValueHasher
  BY <1>1 DEF ValueHasher
<1>6. g \in ValueHasher /\ g.head = next /\ g.tail = last
  BY <1>1, <1>4, <1>5 DEF ValueHasher
<1>7. /\ g.ring_finished = h.ring_finished /\ g.current = h.current
      /\ g.hashed_values = h.hashed_values
      /\ g.state = h.state
      /\ g.last_emitted_ts = h.last_emitted_ts
      /\ g.is_resolving_duplicate = h.is_resolving_duplicate
  BY DEF ValueHasher
<1> QED
  BY <1>2, <1>3, <1>6, <1>7 DEF next, last

\* Opening a slot: head moves on, the slot it leaves keeps its point, and the
\* indices are those of a ring that holds one point more.
LEMMA PushSlotFields ==
  ASSUME NEW h \in ValueHasher, Geometry(h), NEW v \in Measures, NEW t \in Nat
  PROVE  LET p == PushSlot(h, v, t)
         IN  /\ p \in ValueHasher
             /\ p.head = SlotAfter(h.head)
             /\ p.hashed_values[p.head] = Point(v, t)
             /\ p.hashed_values[h.head] = h.hashed_values[h.head]
             /\ p.ring_finished => p.tail = SlotAfter(p.head)
             /\ ~p.ring_finished => p.tail = 0 /\ p.current = p.head /\ p.head > 0
             /\ p.state = h.state
             /\ p.last_emitted_ts = h.last_emitted_ts
             /\ p.is_resolving_duplicate = h.is_resolving_duplicate
             /\ p.hashed_values = [h.hashed_values EXCEPT ![p.head] = Point(v, t)]
             /\ ~p.ring_finished => ~h.ring_finished
             /\ p.ring_finished => h.ring_finished \/ h.head = Capacity - 1
<1> DEFINE a == Advance(h)
           g == GoAhead(a)
           p == [g EXCEPT !.hashed_values[g.head] = Point(v, t)]
<1>1. /\ a \in ValueHasher
      /\ a.head = h.head /\ a.tail = h.tail /\ a.hashed_values = h.hashed_values
      /\ a.state = h.state /\ a.last_emitted_ts = h.last_emitted_ts
      /\ a.is_resolving_duplicate = h.is_resolving_duplicate
      /\ ~a.ring_finished => /\ ~h.ring_finished
                             /\ a.current = h.current + 1
                             /\ h.head + 1 < Capacity
      /\ a.ring_finished => h.ring_finished \/ h.head = Capacity - 1
  BY AdvanceFacts
<1> HIDE DEF a
<1>2. /\ g \in ValueHasher
      /\ g.head = SlotAfter(a.head)
      /\ a.ring_finished => g.tail = SlotAfter(SlotAfter(a.head))
      /\ ~a.ring_finished => g.tail = a.tail
      /\ g.ring_finished = a.ring_finished /\ g.current = a.current
      /\ g.hashed_values = a.hashed_values
      /\ g.state = a.state /\ g.last_emitted_ts = a.last_emitted_ts
      /\ g.is_resolving_duplicate = a.is_resolving_duplicate
  BY <1>1, GoAheadFacts
<1> HIDE DEF g
<1>3. Point(v, t) \in HashedValue
  BY PointType
<1>4. /\ p \in ValueHasher
      /\ p.head = g.head /\ p.tail = g.tail /\ p.current = g.current
      /\ p.ring_finished = g.ring_finished
      /\ p.state = g.state /\ p.last_emitted_ts = g.last_emitted_ts
      /\ p.is_resolving_duplicate = g.is_resolving_duplicate
      /\ p.hashed_values = [g.hashed_values EXCEPT ![g.head] = Point(v, t)]
  BY <1>2, <1>3 DEF ValueHasher
<1>5. /\ p.hashed_values[p.head] = Point(v, t)
      /\ p.hashed_values[h.head] = h.hashed_values[h.head]
  BY <1>1, <1>2, <1>4, SlotNeighbours DEF ValueHasher
<1>6. h.head \in Slots /\ SlotAfter(h.head) = IF h.head = Capacity - 1 THEN 0 ELSE h.head + 1
  BY SlotNeighbours DEF ValueHasher
<1>7. ~p.ring_finished => p.tail = 0 /\ p.current = p.head /\ p.head > 0
  BY <1>1, <1>2, <1>4, <1>6, HashUnitAssumption DEF Geometry, Slots
<1>8. PushSlot(h, v, t) = p
  BY DEF PushSlot, g, a
<1> QED
  BY <1>1, <1>2, <1>4, <1>5, <1>7, <1>8

\* ... without the slots it leaves alone.
LEMMA PushSlotFacts ==
  ASSUME NEW h \in ValueHasher, Geometry(h), NEW v \in Measures, NEW t \in Nat
  PROVE  LET p == PushSlot(h, v, t)
         IN  /\ p \in ValueHasher
             /\ p.head = SlotAfter(h.head)
             /\ p.hashed_values[p.head] = Point(v, t)
             /\ p.hashed_values[h.head] = h.hashed_values[h.head]
             /\ p.ring_finished => p.tail = SlotAfter(p.head)
             /\ ~p.ring_finished => p.tail = 0 /\ p.current = p.head /\ p.head > 0
             /\ p.state = h.state
             /\ p.last_emitted_ts = h.last_emitted_ts
             /\ p.is_resolving_duplicate = h.is_resolving_duplicate
BY PushSlotFields, ZenonT(40)

\* add_after_noice undoes the slot of the failure: the hasher it hands to add_normal
\* has its head on the slot before, and every other field as it was.
LEMMA RollBackFacts ==
  ASSUME NEW h \in ValueHasher, Geometry(h), h.state = "InFail"
  PROVE  LET normal == [h EXCEPT !.state = "Normal",
                                 !.current = IF h.ring_finished THEN @ ELSE @ - 1]
             g == RollBack(normal)
         IN  /\ g \in ValueHasher /\ Geometry(g)
             /\ g.head = SlotBefore(h.head) /\ g.tail = h.tail
             /\ g.ring_finished = h.ring_finished
             /\ g.hashed_values = h.hashed_values
             /\ g.state = "Normal"
             /\ g.last_emitted_ts = h.last_emitted_ts
             /\ g.is_resolving_duplicate = h.is_resolving_duplicate
<1> DEFINE cleared == [h EXCEPT !.state = "Normal"]
           count == IF h.ring_finished THEN h.current ELSE h.current - 1
           normal == [cleared EXCEPT !.current = count]
           back == IF normal.ring_finished THEN SlotBefore(normal.head)
                   ELSE IF normal.head # 0 THEN normal.head - 1 ELSE 0
           g == [normal EXCEPT !.head = back]
<1>1. cleared \in ValueHasher
  BY DEF ValueHasher, HashState
<1>2. h.head \in Slots /\ h.current \in 0 .. Capacity
  BY DEF ValueHasher
<1>3. ~h.ring_finished => h.current = h.head /\ h.head > 0 /\ h.tail = 0
  BY DEF Geometry
<1>4. count \in 0 .. Capacity
  BY <1>2, <1>3, HashUnitAssumption DEF Slots
<1> HIDE DEF count
<1>5. /\ normal \in ValueHasher
      /\ normal.ring_finished = h.ring_finished /\ normal.current = count
      /\ normal.head = h.head /\ normal.tail = h.tail
      /\ normal.hashed_values = h.hashed_values
      /\ normal.state = "Normal"
      /\ normal.last_emitted_ts = h.last_emitted_ts
      /\ normal.is_resolving_duplicate = h.is_resolving_duplicate
  BY <1>1, <1>4 DEF ValueHasher
<1> HIDE DEF normal
<1>6. back = SlotBefore(h.head) /\ back \in Slots
  BY <1>2, <1>3, <1>5, SlotNeighbours, HashUnitAssumption DEF SlotBefore, Slots
<1>7. RollBack(normal) = g
  BY DEF RollBack
<1> HIDE DEF back
<1>8. /\ g \in ValueHasher
      /\ g.head = SlotBefore(h.head)
      /\ g.ring_finished = h.ring_finished /\ g.current = count /\ g.tail = h.tail
      /\ g.hashed_values = h.hashed_values
      /\ g.state = "Normal"
      /\ g.last_emitted_ts = h.last_emitted_ts
      /\ g.is_resolving_duplicate = h.is_resolving_duplicate
  BY <1>5, <1>6 DEF ValueHasher
<1> HIDE DEF g
<1>9. Geometry(g)
  <2>1. CASE h.ring_finished
    <3>1. h.tail = SlotAfter(h.head)
      BY <2>1 DEF Geometry
    <3>2. g.tail = SlotAfter(SlotAfter(g.head))
      BY <1>2, <1>8, <3>1, SlotNeighbours
    <3> QED
      BY <1>8, <2>1, <3>2 DEF Geometry
  <2>2. CASE ~h.ring_finished
    <3>1. count = h.head - 1 /\ SlotBefore(h.head) = h.head - 1
      BY <1>3, <2>2 DEF count, SlotBefore
    <3> QED
      BY <1>3, <1>8, <2>2, <3>1 DEF Geometry
  <2> QED
    BY <2>1, <2>2
<1> QED
  BY <1>7, <1>8, <1>9 DEF normal, count

LEMMA CloseDuplicateFacts ==
  ASSUME NEW g \in ValueHasher, g.ring_finished \/ g.head > 0
  PROVE  LET r == CloseDuplicate(g)
         IN  /\ r.hasher \in ValueHasher
             /\ r.hasher = [g EXCEPT !.is_resolving_duplicate = FALSE]
             /\ r.now = <<g.hashed_values[g.head]>>
             /\ r.before = IF g.is_resolving_duplicate
                             THEN <<g.hashed_values[SlotBefore(g.head)]>> ELSE <<>>
<1> DEFINE clean == [g EXCEPT !.is_resolving_duplicate = FALSE]
<1>1. /\ clean \in ValueHasher
      /\ clean.head = g.head /\ clean.ring_finished = g.ring_finished
      /\ clean.hashed_values = g.hashed_values
  BY DEF ValueHasher
<1> HIDE DEF clean
<1>2. ~(clean.head = 0 /\ ~clean.ring_finished)
  BY <1>1, HashUnitAssumption DEF ValueHasher, Slots
<1>3. CASE g.is_resolving_duplicate
  <2>1. CloseDuplicate(g) = CurrentAndPreviousVal(clean)
    BY <1>3 DEF CloseDuplicate, clean
  <2> QED
    BY <1>1, <1>2, <1>3, <2>1 DEF CurrentAndPreviousVal, clean
<1>4. CASE ~g.is_resolving_duplicate
  <2>1. CloseDuplicate(g) = CurrentVal(clean)
    BY <1>4 DEF CloseDuplicate, clean, ValueHasher
  <2> QED
    BY <1>1, <1>4, <2>1 DEF CurrentVal, clean
<1> QED
  BY <1>3, <1>4

-----------------------------------------------------------------------------
(* add keeps the type of a hasher and its indices fitting, and hands back at *)
(* most one point before and one point now, whatever came before.            *)

WellFormed(r) ==
  /\ r.hasher \in ValueHasher /\ Geometry(r.hasher)
  /\ r.now \in Seq(HashedValue) /\ Len(r.now) <= 1
  /\ r.before \in Seq(HashedValue) /\ Len(r.before) <= 1

\* A hasher whose indices are those of a ring with a fresh slot.
Opened(p) ==
  /\ p \in ValueHasher
  /\ p.ring_finished => p.tail = SlotAfter(p.head)
  /\ ~p.ring_finished => p.tail = 0 /\ p.current = p.head /\ p.head > 0

\* Other fields may change: an opened ring stays opened, and its indices fit.
LEMMA OpenedFacts ==
  ASSUME NEW p, Opened(p)
  PROVE  /\ p \in ValueHasher /\ Geometry(p) /\ (p.ring_finished \/ p.head > 0)
         /\ \A t \in Nat : Opened([p EXCEPT !.last_emitted_ts = t])
         /\ \A st \in HashState : Opened([p EXCEPT !.state = st])
         /\ Opened([p EXCEPT !.is_resolving_duplicate = FALSE])
         /\ \A v \in Measures, t \in Nat :
              Opened([p EXCEPT !.hashed_values[p.head] = Point(v, t)])
<1>1. p \in ValueHasher /\ Geometry(p) /\ (p.ring_finished \/ p.head > 0)
  BY DEF Opened, Geometry
<1>2. \A t \in Nat : Opened([p EXCEPT !.last_emitted_ts = t])
  BY DEF Opened, ValueHasher
<1>3. \A st \in HashState : Opened([p EXCEPT !.state = st])
  BY DEF Opened, ValueHasher
<1>4. Opened([p EXCEPT !.is_resolving_duplicate = FALSE])
  BY DEF Opened, ValueHasher
<1>5. \A v \in Measures, t \in Nat :
        Opened([p EXCEPT !.hashed_values[p.head] = Point(v, t)])
  BY PointType DEF Opened, ValueHasher
<1> QED
  BY <1>1, <1>2, <1>3, <1>4, <1>5

\* What the three ways to return a hasher hand back.
LEMMA ReturnTypes ==
  ASSUME NEW g \in ValueHasher, Geometry(g)
  PROVE  /\ WellFormed(Nothing(g))
         /\ WellFormed(CurrentVal(g))
         /\ g.ring_finished \/ g.head > 0 => WellFormed(CloseDuplicate(g))
<1>1. \A i \in Slots : /\ <<g.hashed_values[i]>> \in Seq(HashedValue)
                       /\ Len(<<g.hashed_values[i]>>) = 1
  BY DEF ValueHasher
<1>2. <<>> \in Seq(HashedValue) /\ Len(<<>>) = 0
  OBVIOUS
<1>3. g.head \in Slots /\ SlotBefore(g.head) \in Slots
  BY SlotNeighbours DEF ValueHasher
<1>4. WellFormed(Nothing(g))
  BY <1>2 DEF WellFormed, Nothing
<1>5. WellFormed(CurrentVal(g))
  BY <1>1, <1>2, <1>3 DEF WellFormed, CurrentVal
<1>6. ASSUME g.ring_finished \/ g.head > 0 PROVE WellFormed(CloseDuplicate(g))
  <2> DEFINE r == CloseDuplicate(g)
             clean == [g EXCEPT !.is_resolving_duplicate = FALSE]
  <2>1. /\ r.hasher \in ValueHasher
        /\ r.hasher = clean
        /\ r.now = <<g.hashed_values[g.head]>>
        /\ r.before = IF g.is_resolving_duplicate
                        THEN <<g.hashed_values[SlotBefore(g.head)]>> ELSE <<>>
    BY <1>6, CloseDuplicateFacts
  <2> HIDE DEF r
  <2>2. Geometry(clean)
    BY DEF Geometry, ValueHasher
  <2>3. r.before \in Seq(HashedValue) /\ Len(r.before) <= 1
    BY <1>1, <1>2, <1>3, <2>1
  <2>4. r.now \in Seq(HashedValue) /\ Len(r.now) <= 1
    BY <1>1, <1>3, <2>1
  <2> QED
    BY <2>1, <2>2, <2>3, <2>4 DEF WellFormed, r
<1> QED
  BY <1>4, <1>5, <1>6

LEMMA PushSlotOpens ==
  ASSUME NEW h \in ValueHasher, Geometry(h), NEW v \in Measures, NEW t \in Nat
  PROVE  Opened(PushSlot(h, v, t))
BY PushSlotFacts DEF Opened

LEMMA AddNormalType ==
  ASSUME NEW h \in ValueHasher, Geometry(h), NEW v \in Measures, NEW t \in Nat
  PROVE  WellFormed(AddNormal(h, v, t))
<1> DEFINE p == PushSlot(h, v, t)
           stamped == [p EXCEPT !.last_emitted_ts = t]
           clean == [stamped EXCEPT !.is_resolving_duplicate = FALSE]
           marked == [h EXCEPT !.is_resolving_duplicate = TRUE]
           moved == [marked EXCEPT !.hashed_values[h.head].timestamp = t]
<1>1. Opened(p)
  BY PushSlotOpens
<1>2. AddNormal(h, v, t) = IF h.hashed_values[h.head].val = v
                             THEN IF t - h.last_emitted_ts > StableDelta
                                    THEN CurrentVal(clean) ELSE Nothing(moved)
                             ELSE CloseDuplicate(stamped)
  BY DEF AddNormal
<1> HIDE DEF p
<1>3. Opened(stamped)
  BY <1>1, OpenedFacts
<1> HIDE DEF stamped
<1>4. Opened(clean)
  BY <1>3, OpenedFacts
<1> HIDE DEF clean
<1>5. moved \in ValueHasher /\ Geometry(moved)
  <2>1. marked \in ValueHasher /\ Geometry(marked) /\ marked.head = h.head
    BY DEF ValueHasher, Geometry
  <2>2. h.head \in Slots
    BY DEF ValueHasher
  <2> HIDE DEF marked
  <2> QED
    <3> DEFINE slots == [marked.hashed_values EXCEPT ![h.head].timestamp = t]
    <3>1. slots \in [Slots -> HashedValue]
      BY <2>1, <2>2 DEF ValueHasher, HashedValue
    <3>2. moved = [marked EXCEPT !.hashed_values = slots]
      BY <2>1
    <3> HIDE DEF slots
    <3> QED
      BY <2>1, <3>1, <3>2 DEF ValueHasher, Geometry
<1> HIDE DEF moved
<1>6. WellFormed(CurrentVal(clean)) /\ WellFormed(CloseDuplicate(stamped))
  BY <1>3, <1>4, OpenedFacts, ReturnTypes
<1>7. WellFormed(Nothing(moved))
  BY <1>5, ReturnTypes
<1> QED
  BY <1>2, <1>6, <1>7

LEMMA AddFailType ==
  ASSUME NEW h \in ValueHasher, Geometry(h), NEW v \in Measures, NEW t \in Nat
  PROVE  WellFormed(AddFail(h, v, t))
<1> DEFINE p == PushSlot(h, v, t)
           g == IF h.state = "Normal" THEN [p EXCEPT !.state = "InFail"] ELSE h
           moved == [g EXCEPT !.hashed_values[g.head].timestamp = t]
           reported == [moved EXCEPT !.state = "FailReported"]
<1>1. Opened(p)
  BY PushSlotOpens
<1>2. AddFail(h, v, t) = IF /\ h.state # "FailReported"
                            /\ t - g.hashed_values[g.head].timestamp > FailureDelta
                           THEN CloseDuplicate(reported) ELSE Nothing(g)
  BY DEF AddFail
<1> HIDE DEF p
<1>3. g \in ValueHasher /\ Geometry(g)
  <2>1. Opened([p EXCEPT !.state = "InFail"])
    BY <1>1, OpenedFacts DEF HashState
  <2> QED
    BY <2>1, OpenedFacts DEF g
<1>4. h.state # "FailReported" => g.ring_finished \/ g.head > 0
  <2>1. Opened([p EXCEPT !.state = "InFail"])
    BY <1>1, OpenedFacts DEF HashState
  <2>2. h.state \in HashState
    BY DEF ValueHasher
  <2>3. h.state = "InFail" => h.ring_finished \/ h.head > 0
    BY DEF Geometry
  <2> QED
    BY <2>1, <2>2, <2>3 DEF HashState, Opened
<1> HIDE DEF g
<1>5. /\ moved \in ValueHasher
      /\ moved.head = g.head /\ moved.tail = g.tail /\ moved.current = g.current
      /\ moved.ring_finished = g.ring_finished /\ moved.state = g.state
  <2>1. g.head \in Slots
    BY <1>3 DEF ValueHasher
  <2> QED
    BY <1>3, <2>1 DEF ValueHasher, HashedValue
<1> HIDE DEF moved
<1>6. /\ reported \in ValueHasher
      /\ reported.head = g.head /\ reported.tail = g.tail /\ reported.current = g.current
      /\ reported.ring_finished = g.ring_finished /\ reported.state = "FailReported"
  BY <1>5 DEF ValueHasher, HashState
<1> HIDE DEF reported
<1>7. CASE h.state # "FailReported" /\ t - g.hashed_values[g.head].timestamp > FailureDelta
  <2>1. g.state = "InFail"
    <3>1. [p EXCEPT !.state = "InFail"].state = "InFail" /\ h.state \in HashState
      BY <1>1 DEF Opened, ValueHasher
    <3> QED
      BY <1>7, <3>1 DEF g, HashState
  <2>2. Geometry(reported)
    BY <1>3, <1>6, <2>1 DEF Geometry
  <2> QED
    BY <1>2, <1>4, <1>6, <1>7, <2>2, ReturnTypes
<1>8. CASE ~(h.state # "FailReported" /\ t - g.hashed_values[g.head].timestamp > FailureDelta)
  BY <1>2, <1>3, <1>8, ReturnTypes
<1> QED
  BY <1>7, <1>8

\* add in every state.
LEMMA AddType ==
  ASSUME NEW h \in ValueHasher, Geometry(h), NEW v \in Measures, NEW t \in Nat
  PROVE  WellFormed(Add(h, v, t))
<1>1. h.state \in HashState
  BY DEF ValueHasher
<1>2. CASE v = Fail
  BY <1>2, AddFailType DEF Add
<1>3. CASE v # Fail /\ h.state = "Normal"
  BY <1>3, AddNormalType DEF Add
<1>4. CASE v # Fail /\ h.state = "InFail"
  <2> DEFINE normal == [h EXCEPT !.state = "Normal",
                                 !.current = IF h.ring_finished THEN @ ELSE @ - 1]
  <2>1. RollBack(normal) \in ValueHasher /\ Geometry(RollBack(normal))
    BY <1>4, RollBackFacts
  <2>2. Add(h, v, t) = AddNormal(RollBack(normal), v, t)
    BY <1>4 DEF Add, AddAfterNoice
  <2> HIDE DEF normal
  <2> QED
    BY <2>1, <2>2, AddNormalType
<1>5. CASE v # Fail /\ h.state = "FailReported"
  <2> DEFINE p == PushSlot(h, v, t)
             normal == [p EXCEPT !.state = "Normal"]
             clean == [normal EXCEPT !.is_resolving_duplicate = FALSE]
             stamped == [clean EXCEPT !.last_emitted_ts = t]
  <2>1. Opened(p)
    BY PushSlotOpens
  <2>2. Add(h, v, t) = CurrentVal(stamped)
    BY <1>5 DEF Add, CleanFailReport
  <2> HIDE DEF p
  <2>3. Opened(normal)
    BY <2>1, OpenedFacts DEF HashState
  <2> HIDE DEF normal
  <2>4. Opened(clean)
    BY <2>3, OpenedFacts
  <2> HIDE DEF clean
  <2>5. Opened(stamped)
    BY <2>4, OpenedFacts
  <2> HIDE DEF stamped
  <2> QED
    BY <2>2, <2>5, OpenedFacts, ReturnTypes
<1> QED
  BY <1>1, <1>2, <1>3, <1>4, <1>5 DEF HashState

\* The first sample of a tag.
LEMMA NewHasherType ==
  ASSUME NEW v \in Measures, NEW t \in Nat
  PROVE  WellFormed(CurrentVal(NewHasher(v, t)))
<1> DEFINE h == NewHasher(v, t)
<1>1. 0 \in Slots /\ 0 \in 0 .. Capacity
  BY HashUnitAssumption DEF Slots
<1>2. Point(v, t) \in HashedValue /\ Point(Zero, 0) \in HashedValue
  BY PointType, HashUnitAssumption DEF Measures
<1>3. h \in ValueHasher /\ Geometry(h)
  BY <1>1, <1>2 DEF NewHasher, ValueHasher, HashState, Geometry
<1> QED
  BY <1>3, ReturnTypes

-----------------------------------------------------------------------------
(* The window: the slots from tail to head, in the order of their offsets.   *)

\* The slot at an offset, without the remainder.
SlotAt(h, i) == IF h.tail + i < Capacity THEN h.tail + i ELSE h.tail + i - Capacity

\* How many slots the indices span, and which slots they are.
LEMMA WindowShape ==
  ASSUME NEW h \in ValueHasher, Geometry(h)
  PROVE  /\ WindowLen(h) \in 1 .. Capacity
         /\ ~h.ring_finished => WindowLen(h) = h.head + 1
         /\ h.ring_finished /\ h.tail = SlotAfter(h.head) => WindowLen(h) = Capacity
         /\ h.ring_finished /\ h.tail # SlotAfter(h.head) => WindowLen(h) = Capacity - 1
         /\ \A i \in 0 .. WindowLen(h) - 1 :
              /\ SlotAt(h, i) \in Slots /\ (h.tail + i) % Capacity = SlotAt(h, i)
              /\ AtOffset(h, i) = h.hashed_values[SlotAt(h, i)]
         /\ SlotAt(h, WindowLen(h) - 1) = h.head
         /\ WindowLen(h) > 1 => SlotAt(h, WindowLen(h) - 2) = SlotBefore(h.head)
<1> DEFINE x == h.head + Capacity - h.tail
<1>1. /\ Capacity \in Nat /\ Capacity > 1 /\ h.head \in 0 .. Capacity - 1
      /\ h.tail \in 0 .. Capacity - 1
  BY HashUnitAssumption DEF ValueHasher, Slots
<1>2. \A i \in Slots : SlotAfter(i) = IF i = Capacity - 1 THEN 0 ELSE i + 1
  BY SlotNeighbours
<1>3. /\ \A y \in 0 .. Capacity - 1 : y % Capacity = y
      /\ \A y \in Capacity .. 2 * Capacity - 1 : y % Capacity = y - Capacity
  <2>1. Capacity \in Nat \ {0}
    BY <1>1
  <2> QED
    BY <2>1, SmallRemainder, Zenon
<1>4. /\ x \in 1 .. 2 * Capacity - 1
      /\ x < Capacity => x % Capacity = x
      /\ x >= Capacity => x % Capacity = x - Capacity
  <2>1. /\ x \in 1 .. 2 * Capacity - 1
        /\ x < Capacity => x \in 0 .. Capacity - 1
        /\ x >= Capacity => x \in Capacity .. 2 * Capacity - 1
    BY <1>1
  <2> HIDE DEF x
  <2> QED
    BY <1>3, <2>1
<1>5. WindowLen(h) = (x % Capacity) + 1
  BY DEF WindowLen
<1> HIDE DEF x
<1>6. \A i \in 0 .. Capacity - 1 : (h.tail + i) % Capacity = SlotAt(h, i)
  <2> TAKE i \in 0 .. Capacity - 1
  <2> DEFINE y == h.tail + i
  <2>1. /\ SlotAt(h, i) = IF y < Capacity THEN y ELSE y - Capacity
        /\ y < Capacity => y \in 0 .. Capacity - 1
        /\ ~(y < Capacity) => y \in Capacity .. 2 * Capacity - 1
    BY <1>1 DEF SlotAt
  <2> HIDE DEF y
  <2>2. y % Capacity = SlotAt(h, i)
    BY <1>3, <2>1
  <2> QED
    BY <2>2 DEF y
<1>7. \A i \in 0 .. Capacity - 1 : SlotAt(h, i) \in Slots
  BY <1>1 DEF SlotAt, Slots
<1>8. \A i \in 0 .. Capacity - 1 : AtOffset(h, i) = h.hashed_values[SlotAt(h, i)]
  BY <1>6 DEF AtOffset
<1>9. CASE ~h.ring_finished
  <2>1. h.tail = 0
    BY <1>9 DEF Geometry
  <2>2. WindowLen(h) = h.head + 1
    BY <1>1, <1>4, <1>5, <2>1 DEF x
  <2>3. /\ SlotAt(h, h.head) = h.head
        /\ h.head > 0 => SlotAt(h, h.head - 1) = SlotBefore(h.head)
    BY <1>1, <2>1 DEF SlotAt, SlotBefore
  <2> DEFINE n == WindowLen(h)
  <2>4. /\ n \in 1 .. Capacity /\ n - 1 = h.head
        /\ n > 1 => n - 2 = h.head - 1 /\ h.head > 0
        /\ \A i \in 0 .. n - 1 : i \in 0 .. Capacity - 1
    BY <1>1, <2>2
  <2> HIDE DEF n
  <2>5. /\ SlotAt(h, n - 1) = h.head
        /\ n > 1 => SlotAt(h, n - 2) = SlotBefore(h.head)
    BY <2>3, <2>4
  <2>6. \A i \in 0 .. n - 1 :
          /\ SlotAt(h, i) \in Slots /\ (h.tail + i) % Capacity = SlotAt(h, i)
          /\ AtOffset(h, i) = h.hashed_values[SlotAt(h, i)]
    BY <1>6, <1>7, <1>8, <2>4
  <2> QED
    BY <1>9, <2>2, <2>4, <2>5, <2>6 DEF n
<1>10. CASE h.ring_finished /\ h.tail = SlotAfter(h.head)
  <2>1. h.tail = IF h.head = Capacity - 1 THEN 0 ELSE h.head + 1
    BY <1>1, <1>2, <1>10 DEF Slots
  <2>2. WindowLen(h) = Capacity
    BY <1>1, <1>4, <1>5, <2>1 DEF x
  <2>3. SlotAt(h, Capacity - 1) = h.head /\ SlotAt(h, Capacity - 2) = SlotBefore(h.head)
    BY <1>1, <2>1 DEF SlotAt, SlotBefore
  <2> QED
    BY <1>1, <1>6, <1>7, <1>8, <1>10, <2>2, <2>3
<1>11. CASE h.ring_finished /\ h.tail # SlotAfter(h.head)
  <2>1. h.tail = SlotAfter(SlotAfter(h.head)) /\ SlotAfter(h.head) \in Slots
    BY <1>11, SlotNeighbours DEF Geometry, ValueHasher
  <2>2. h.tail = IF h.head = Capacity - 1 THEN 1
                 ELSE IF h.head = Capacity - 2 THEN 0 ELSE h.head + 2
    BY <1>1, <1>2, <2>1 DEF Slots
  <2>3. WindowLen(h) = Capacity - 1
    BY <1>1, <1>4, <1>5, <2>2 DEF x
  <2>4. /\ SlotAt(h, Capacity - 2) = h.head
        /\ Capacity > 2 => SlotAt(h, Capacity - 3) = SlotBefore(h.head)
    BY <1>1, <2>2 DEF SlotAt, SlotBefore
  <2> QED
    BY <1>1, <1>6, <1>7, <1>8, <1>11, <2>3, <2>4
<1> QED
  BY <1>9, <1>10, <1>11

\* No two offsets of the window name one slot.
LEMMA OffsetsDistinct ==
  ASSUME NEW h \in ValueHasher, Geometry(h),
         NEW i \in 0 .. WindowLen(h) - 1, NEW j \in 0 .. WindowLen(h) - 1, i # j
  PROVE  SlotAt(h, i) # SlotAt(h, j)
<1>1. WindowLen(h) \in 1 .. Capacity /\ h.tail \in Slots
  BY WindowShape DEF ValueHasher
<1> QED
  BY <1>1, HashUnitAssumption DEF SlotAt, Slots

\* Opening a slot appends to the window, which loses its oldest slot (k = 1) when the
\* ring was full.
LEMMA PushSlotWindow ==
  ASSUME NEW h \in ValueHasher, Geometry(h), NEW v \in Measures, NEW t \in Nat
  PROVE  LET p == PushSlot(h, v, t)
         IN  /\ p \in ValueHasher /\ Geometry(p)
             /\ WindowLen(p) > 1
             /\ AtOffset(p, WindowLen(p) - 1) = Point(v, t)
             /\ \E k \in {0, 1} :
                  /\ WindowLen(p) = WindowLen(h) + 1 - k
                  /\ \A i \in 0 .. WindowLen(p) - 2 : AtOffset(p, i) = AtOffset(h, i + k)
<1> DEFINE p == PushSlot(h, v, t)
<1>1. /\ p \in ValueHasher
      /\ p.head = SlotAfter(h.head)
      /\ p.hashed_values = [h.hashed_values EXCEPT ![p.head] = Point(v, t)]
      /\ p.ring_finished => p.tail = SlotAfter(p.head)
      /\ ~p.ring_finished => p.tail = 0 /\ p.current = p.head /\ p.head > 0
      /\ ~p.ring_finished => ~h.ring_finished
      /\ p.ring_finished => h.ring_finished \/ h.head = Capacity - 1
  BY PushSlotFields
<1> HIDE DEF p
<1>2. Geometry(p)
  BY <1>1 DEF Geometry
<1>3. /\ Capacity \in Nat /\ Capacity > 1 /\ h.head \in 0 .. Capacity - 1
      /\ h.tail \in 0 .. Capacity - 1 /\ p.head \in 0 .. Capacity - 1
      /\ p.tail \in 0 .. Capacity - 1 /\ h.hashed_values \in [Slots -> HashedValue]
  BY <1>1, HashUnitAssumption DEF ValueHasher, Slots
<1>4. \A i \in Slots : SlotAfter(i) = IF i = Capacity - 1 THEN 0 ELSE i + 1
  BY SlotNeighbours
<1>5. p.head = IF h.head = Capacity - 1 THEN 0 ELSE h.head + 1
  BY <1>1, <1>3, <1>4 DEF Slots
<1> DEFINE m == WindowLen(h)
           n == WindowLen(p)
<1>6. /\ m \in 1 .. Capacity
      /\ ~h.ring_finished => m = h.head + 1
      /\ h.ring_finished /\ h.tail = SlotAfter(h.head) => m = Capacity
      /\ h.ring_finished /\ h.tail # SlotAfter(h.head) => m = Capacity - 1
      /\ \A i \in 0 .. m - 1 :
           SlotAt(h, i) \in Slots /\ AtOffset(h, i) = h.hashed_values[SlotAt(h, i)]
  BY WindowShape
<1>7. /\ n \in 1 .. Capacity
      /\ ~p.ring_finished => n = p.head + 1
      /\ p.ring_finished => n = Capacity
      /\ \A i \in 0 .. n - 1 :
           SlotAt(p, i) \in Slots /\ AtOffset(p, i) = p.hashed_values[SlotAt(p, i)]
      /\ SlotAt(p, n - 1) = p.head
  BY <1>1, <1>2, WindowShape
<1> HIDE DEF m, n
<1>8. n > 1
  BY <1>1, <1>3, <1>7
<1>9. AtOffset(p, n - 1) = Point(v, t)
  BY <1>1, <1>3, <1>7 DEF Slots
<1>10. \A i \in 0 .. n - 2 : AtOffset(p, i) = h.hashed_values[SlotAt(p, i)]
  <2> TAKE i \in 0 .. n - 2
  <2>1. i \in 0 .. n - 1 /\ n - 1 \in 0 .. n - 1 /\ i # n - 1
    BY <1>7, <1>8
  <2>2. SlotAt(p, i) # p.head
    BY <1>1, <1>2, <1>7, <2>1, OffsetsDistinct DEF n
  <2> QED
    BY <1>1, <1>3, <1>7, <2>1, <2>2
<1> DEFINE Fits(k) == /\ n = m + 1 - k
                      /\ \A i \in 0 .. n - 2 : SlotAt(p, i) = SlotAt(h, i + k)
<1>11. Fits(0) \/ Fits(1)
  <2>1. CASE ~p.ring_finished
    <3>1. p.tail = 0 /\ h.tail = 0 /\ ~h.ring_finished /\ p.head = h.head + 1
      BY <1>1, <1>3, <1>5, <2>1 DEF Geometry
    <3> QED
      BY <1>3, <1>6, <1>7, <2>1, <3>1 DEF SlotAt
  <2>2. CASE p.ring_finished /\ ~h.ring_finished
    <3>1. h.tail = 0 /\ h.head = Capacity - 1 /\ p.head = 0 /\ p.tail = 1
      BY <1>1, <1>3, <1>4, <1>5, <2>2 DEF Geometry, Slots
    <3> QED
      BY <1>3, <1>6, <1>7, <2>2, <3>1 DEF SlotAt
  <2>3. CASE h.ring_finished /\ h.tail = SlotAfter(h.head)
    <3>1. p.ring_finished
      BY <1>1, <2>3
    <3>2. h.tail = p.head /\ p.tail = IF h.tail = Capacity - 1 THEN 0 ELSE h.tail + 1
      BY <1>1, <1>3, <1>4, <2>3, <3>1 DEF Slots
    <3>3. n = Capacity /\ m = Capacity
      BY <1>6, <1>7, <2>3, <3>1
    <3>4. ASSUME NEW i \in 0 .. n - 2 PROVE SlotAt(p, i) = SlotAt(h, i + 1)
      BY <1>3, <3>2, <3>3 DEF SlotAt
    <3> QED
      BY <1>3, <3>3, <3>4
  <2>4. CASE h.ring_finished /\ h.tail # SlotAfter(h.head)
    <3>1. p.ring_finished
      BY <1>1, <2>4
    <3>2. h.tail = p.tail
      BY <1>1, <2>4, <3>1 DEF Geometry
    <3> QED
      BY <1>3, <1>6, <1>7, <2>4, <3>1, <3>2 DEF SlotAt
  <2> QED
    BY <2>1, <2>2, <2>3, <2>4
<1>12. PICK k \in {0, 1} : Fits(k)
  BY <1>11
<1>13. ASSUME NEW i \in 0 .. n - 2 PROVE AtOffset(p, i) = AtOffset(h, i + k)
  <2>1. i + k \in 0 .. m - 1
    BY <1>6, <1>7, <1>12
  <2> QED
    BY <1>6, <1>10, <1>12, <2>1
<1> QED
  BY <1>1, <1>2, <1>8, <1>9, <1>12, <1>13 DEF p, m, n

\* The fields the window is made of.
LEMMA SameWindow ==
  ASSUME NEW h, NEW g, g.head = h.head, g.tail = h.tail, g.hashed_values = h.hashed_values
  PROVE  /\ WindowLen(g) = WindowLen(h)
         /\ \A i : AtOffset(g, i) = AtOffset(h, i)
BY DEF WindowLen, AtOffset

\* Writing the slot at head changes the last point of the window only.
LEMMA HeadWritten ==
  ASSUME NEW h \in ValueHasher, Geometry(h), NEW g, NEW p,
         g.head = h.head, g.tail = h.tail,
         g.hashed_values = [h.hashed_values EXCEPT ![h.head] = p]
  PROVE  /\ WindowLen(g) = WindowLen(h)
         /\ AtOffset(g, WindowLen(h) - 1) = p
         /\ \A i \in 0 .. WindowLen(h) - 2 : AtOffset(g, i) = AtOffset(h, i)
<1> DEFINE n == WindowLen(h)
<1>1. /\ n \in 1 .. Capacity /\ Capacity \in Nat
      /\ \A i \in 0 .. n - 1 :
           /\ SlotAt(h, i) \in Slots /\ (h.tail + i) % Capacity = SlotAt(h, i)
           /\ AtOffset(h, i) = h.hashed_values[SlotAt(h, i)]
      /\ SlotAt(h, n - 1) = h.head
  BY WindowShape, HashUnitAssumption
<1>2. h.head \in Slots /\ h.hashed_values \in [Slots -> HashedValue]
  BY DEF ValueHasher
<1>3. \A i \in 0 .. n - 1 : i # n - 1 => SlotAt(h, i) # h.head
  BY <1>1, OffsetsDistinct
<1>4. WindowLen(g) = n
  BY DEF WindowLen
<1> HIDE DEF n
<1>5. \A i \in 0 .. n - 1 : AtOffset(g, i) = g.hashed_values[SlotAt(h, i)]
  BY <1>1 DEF AtOffset
<1>6. AtOffset(g, n - 1) = p
  BY <1>1, <1>2, <1>5
<1>7. ASSUME NEW i \in 0 .. n - 2 PROVE AtOffset(g, i) = AtOffset(h, i)
  BY <1>1, <1>2, <1>3, <1>5
<1> QED
  BY <1>4, <1>6, <1>7 DEF n

\* Rolling back drops the last point of the window.
LEMMA RolledBack ==
  ASSUME NEW h \in ValueHasher, Geometry(h), h.state = "InFail",
         NEW g \in ValueHasher, Geometry(g),
         g.head = SlotBefore(h.head), g.tail = h.tail,
         g.ring_finished = h.ring_finished, g.hashed_values = h.hashed_values
  PROVE  /\ WindowLen(h) > 1
         /\ WindowLen(g) = WindowLen(h) - 1
         /\ \A i : AtOffset(g, i) = AtOffset(h, i)
<1>1. \A i : AtOffset(g, i) = AtOffset(h, i)
  BY DEF AtOffset
<1>2. h.head \in Slots /\ Capacity \in Nat /\ Capacity > 1
  BY HashUnitAssumption DEF ValueHasher
<1>3. CASE ~h.ring_finished
  <2>1. h.head > 0 /\ SlotBefore(h.head) = h.head - 1
    BY <1>2, <1>3 DEF Geometry, SlotBefore, Slots
  <2>2. WindowLen(h) = h.head + 1 /\ WindowLen(g) = g.head + 1
    BY <1>3, WindowShape
  <2> QED
    BY <1>1, <1>2, <2>1, <2>2 DEF Slots
<1>4. CASE h.ring_finished
  <2>1. h.tail = SlotAfter(h.head) /\ h.tail # SlotAfter(g.head)
    BY <1>2, <1>4, SlotNeighbours DEF Geometry
  <2>2. WindowLen(h) = Capacity /\ WindowLen(g) = Capacity - 1
    BY <1>4, <2>1, WindowShape
  <2> QED
    BY <1>1, <1>2, <2>2
<1> QED
  BY <1>3, <1>4

-----------------------------------------------------------------------------
(* What add does to the confirmed window.                                    *)

\* At most the oldest point is gone.
Kept(h, g) ==
  \E k \in {0, 1} :
    /\ ConfirmedLen(g) = ConfirmedLen(h) - k
    /\ \A i \in 0 .. ConfirmedLen(g) - 1 : AtOffset(g, i) = AtOffset(h, i + k)

\* The last point is another one.
Stamped(h, g, p) ==
  /\ ConfirmedLen(g) = ConfirmedLen(h)
  /\ LastConfirmed(g) = p
  /\ \A i \in 0 .. ConfirmedLen(g) - 2 : AtOffset(g, i) = AtOffset(h, i)

\* One point more, and at most the oldest is gone.
Grown(h, g, p) ==
  /\ ConfirmedLen(g) > 1
  /\ LastConfirmed(g) = p
  /\ \E k \in {0, 1} :
       /\ ConfirmedLen(g) = ConfirmedLen(h) + 1 - k
       /\ \A i \in 0 .. ConfirmedLen(g) - 2 : AtOffset(g, i) = AtOffset(h, i + k)

\* The three outcomes of a call, with the rows it hands back.
Outcome(h, r, v, t) ==
  LET last == LastConfirmed(h)
  IN  \/ r.now = <<>> /\ r.before = <<>> /\ v = Fail /\ Kept(h, r.hasher)
      \/ /\ r.now = <<>> /\ r.before = <<>>
         /\ v # Fail /\ v = last.val
         /\ Stamped(h, r.hasher, Point(v, t))
      \/ /\ r.now = <<Point(v, t)>>
         /\ r.before \in {<<>>, <<last>>}
         /\ (h.is_resolving_duplicate /\ last.val # v /\ h.state # "FailReported") =>
              r.before = <<last>>
         /\ Grown(h, r.hasher, Point(v, t))

LEMMA ConfirmedLenType ==
  ASSUME NEW h \in ValueHasher, Geometry(h)
  PROVE  /\ ConfirmedLen(h) \in 1 .. Capacity
         /\ LastConfirmed(h) =
              h.hashed_values[IF h.state = "InFail" THEN SlotBefore(h.head) ELSE h.head]
<1>1. /\ WindowLen(h) \in 1 .. Capacity /\ Capacity \in Nat /\ Capacity > 1
      /\ ~h.ring_finished => WindowLen(h) = h.head + 1
      /\ h.ring_finished /\ h.tail = SlotAfter(h.head) => WindowLen(h) = Capacity
      /\ \A i \in 0 .. WindowLen(h) - 1 : AtOffset(h, i) = h.hashed_values[SlotAt(h, i)]
      /\ SlotAt(h, WindowLen(h) - 1) = h.head
      /\ WindowLen(h) > 1 => SlotAt(h, WindowLen(h) - 2) = SlotBefore(h.head)
  BY WindowShape, HashUnitAssumption
<1>2. h.state = "InFail" => WindowLen(h) > 1
  BY <1>1 DEF Geometry, ValueHasher, Slots
<1> HIDE DEF WindowLen
<1>3. CASE h.state = "InFail"
  <2>1. ConfirmedLen(h) = WindowLen(h) - 1 /\ ConfirmedLen(h) - 1 = WindowLen(h) - 2
    BY <1>1, <1>3 DEF ConfirmedLen
  <2> QED
    BY <1>1, <1>2, <1>3, <2>1 DEF LastConfirmed
<1>4. CASE h.state # "InFail"
  BY <1>1, <1>4 DEF LastConfirmed, ConfirmedLen
<1> QED
  BY <1>3, <1>4

\* Opening a slot for a point that is not a failure to be confirmed.
LEMMA PushSlotGrows ==
  ASSUME NEW h \in ValueHasher, Geometry(h), h.state # "InFail",
         NEW v \in Measures, NEW t \in Nat, NEW g, g.state # "InFail",
         g.head = PushSlot(h, v, t).head, g.tail = PushSlot(h, v, t).tail,
         g.hashed_values = PushSlot(h, v, t).hashed_values
  PROVE  Grown(h, g, Point(v, t))
<1> DEFINE p == PushSlot(h, v, t)
<1>1. /\ WindowLen(p) > 1
      /\ AtOffset(p, WindowLen(p) - 1) = Point(v, t)
      /\ \E k \in {0, 1} :
           /\ WindowLen(p) = WindowLen(h) + 1 - k
           /\ \A i \in 0 .. WindowLen(p) - 2 : AtOffset(p, i) = AtOffset(h, i + k)
  BY PushSlotWindow
<1> HIDE DEF p
<1>2. WindowLen(g) = WindowLen(p) /\ \A i : AtOffset(g, i) = AtOffset(p, i)
  BY SameWindow DEF p
<1>3. ConfirmedLen(g) = WindowLen(p) /\ ConfirmedLen(h) = WindowLen(h)
  BY <1>2 DEF ConfirmedLen
<1> QED
  BY <1>1, <1>2, <1>3 DEF Grown, LastConfirmed

LEMMA AddNormalOutcome ==
  ASSUME NEW h \in ValueHasher, Geometry(h), h.state = "Normal",
         NEW v \in Values, NEW t \in Nat
  PROVE  Outcome(h, AddNormal(h, v, t), v, t)
<1> DEFINE slot == h.hashed_values[h.head]
           p == PushSlot(h, v, t)
           r == AddNormal(h, v, t)
<1>1. v \in Measures /\ v # Fail /\ h.head \in Slots /\ slot \in HashedValue
  BY HashUnitAssumption DEF Measures, ValueHasher
<1>2. /\ p \in ValueHasher
      /\ p.head = SlotAfter(h.head)
      /\ p.hashed_values[p.head] = Point(v, t)
      /\ p.hashed_values[h.head] = slot
      /\ p.ring_finished \/ p.head > 0
      /\ p.state = "Normal"
      /\ p.is_resolving_duplicate = h.is_resolving_duplicate
  BY <1>1, PushSlotFacts
<1>3. LastConfirmed(h) = slot /\ ConfirmedLen(h) = WindowLen(h)
  BY ConfirmedLenType DEF ConfirmedLen
<1> HIDE DEF p, slot
<1>4. CASE slot.val = v /\ t - h.last_emitted_ts > StableDelta
  <2> DEFINE q == [p EXCEPT !.last_emitted_ts = t]
             g == [q EXCEPT !.is_resolving_duplicate = FALSE]
  <2>1. q \in ValueHasher
    BY <1>2 DEF ValueHasher
  <2>2. /\ g.head = p.head /\ g.tail = p.tail /\ g.hashed_values = p.hashed_values
        /\ g.state = p.state
    BY <1>2, <2>1 DEF ValueHasher
  <2>3. r = CurrentVal(g)
    BY <1>4 DEF AddNormal, p, slot
  <2> HIDE DEF g
  <2>4. r.hasher = g /\ r.now = <<Point(v, t)>> /\ r.before = <<>>
    BY <1>2, <2>2, <2>3 DEF CurrentVal
  <2>5. Grown(h, g, Point(v, t))
    BY <1>1, <1>2, <2>2, PushSlotGrows DEF p
  <2> HIDE DEF r
  <2>6. Outcome(h, r, v, t)
    BY <1>3, <1>4, <2>4, <2>5 DEF Outcome
  <2> QED
    BY <2>6 DEF r
<1>5. CASE slot.val = v /\ ~(t - h.last_emitted_ts > StableDelta)
  <2> DEFINE q == [h EXCEPT !.is_resolving_duplicate = TRUE]
             g == [q EXCEPT !.hashed_values[h.head].timestamp = t]
             moved == [slot EXCEPT !.timestamp = t]
  <2>1. /\ q \in ValueHasher
        /\ q.hashed_values = h.hashed_values
        /\ q.head = h.head /\ q.tail = h.tail /\ q.state = h.state
    BY DEF ValueHasher
  <2>2. moved = Point(v, t)
    BY <1>1, <1>5 DEF HashedValue, Point
  <2>3. g = [q EXCEPT !.hashed_values = [h.hashed_values EXCEPT ![h.head] = Point(v, t)]]
    BY <2>1, <2>2 DEF slot
  <2>4. r = Nothing(g)
    BY <1>5 DEF AddNormal, slot
  <2> HIDE DEF moved, q, g
  <2>5. /\ g.hashed_values = [h.hashed_values EXCEPT ![h.head] = Point(v, t)]
        /\ g.head = h.head /\ g.tail = h.tail /\ g.state = "Normal"
    BY <2>1, <2>3 DEF ValueHasher
  <2>6. r.hasher = g /\ r.now = <<>> /\ r.before = <<>>
    BY <2>4 DEF Nothing
  <2>7. Stamped(h, g, Point(v, t))
    <3>1. /\ WindowLen(g) = WindowLen(h)
          /\ AtOffset(g, WindowLen(h) - 1) = Point(v, t)
          /\ \A i \in 0 .. WindowLen(h) - 2 : AtOffset(g, i) = AtOffset(h, i)
      BY <2>5, HeadWritten
    <3> QED
      BY <1>3, <2>5, <3>1 DEF Stamped, ConfirmedLen, LastConfirmed
  <2> HIDE DEF r
  <2>8. Outcome(h, r, v, t)
    BY <1>1, <1>3, <1>5, <2>6, <2>7 DEF Outcome
  <2> QED
    BY <2>8 DEF r
<1>6. CASE slot.val # v
  <2> DEFINE q == [p EXCEPT !.last_emitted_ts = t]
             g == [q EXCEPT !.is_resolving_duplicate = FALSE]
  <2>1. /\ q \in ValueHasher
        /\ q.head = p.head /\ q.tail = p.tail /\ q.state = p.state
        /\ q.ring_finished = p.ring_finished /\ q.hashed_values = p.hashed_values
        /\ q.is_resolving_duplicate = h.is_resolving_duplicate
    BY <1>2 DEF ValueHasher
  <2> HIDE DEF q
  <2>2. /\ g.head = p.head /\ g.tail = p.tail /\ g.hashed_values = p.hashed_values
        /\ g.state = p.state
    BY <2>1 DEF ValueHasher
  <2>3. r = CloseDuplicate(q)
    BY <1>6 DEF AddNormal, p, slot, q
  <2>4. SlotBefore(q.head) = h.head
    BY <1>1, <1>2, <2>1, SlotNeighbours
  <2>5. /\ r.hasher = g
        /\ r.now = <<Point(v, t)>>
        /\ r.before = IF h.is_resolving_duplicate THEN <<slot>> ELSE <<>>
    BY <1>2, <2>1, <2>3, <2>4, CloseDuplicateFacts
  <2> HIDE DEF g
  <2>6. Grown(h, g, Point(v, t))
    BY <1>1, <1>2, <2>2, PushSlotGrows DEF p
  <2> HIDE DEF r
  <2>7. r.before \in {<<>>, <<slot>>} /\ (h.is_resolving_duplicate => r.before = <<slot>>)
    BY <2>5
  <2>8. Outcome(h, r, v, t)
    BY <1>3, <2>5, <2>6, <2>7 DEF Outcome
  <2> QED
    BY <2>8 DEF r
<1> QED
  BY <1>4, <1>5, <1>6

LEMMA AddAfterNoiceOutcome ==
  ASSUME NEW h \in ValueHasher, Geometry(h), h.state = "InFail",
         NEW v \in Values, NEW t \in Nat
  PROVE  Outcome(h, AddAfterNoice(h, v, t), v, t)
<1> DEFINE normal == [h EXCEPT !.state = "Normal",
                               !.current = IF h.ring_finished THEN @ ELSE @ - 1]
           b == RollBack(normal)
           r == AddNormal(b, v, t)
<1>1. /\ b \in ValueHasher /\ Geometry(b)
      /\ b.head = SlotBefore(h.head) /\ b.tail = h.tail
      /\ b.ring_finished = h.ring_finished
      /\ b.hashed_values = h.hashed_values
      /\ b.state = "Normal"
      /\ b.is_resolving_duplicate = h.is_resolving_duplicate
  BY RollBackFacts
<1>2. AddAfterNoice(h, v, t) = r
  BY DEF AddAfterNoice
<1> HIDE DEF b
<1>3. Outcome(b, r, v, t)
  BY <1>1, AddNormalOutcome
<1> HIDE DEF r
<1>4. /\ WindowLen(b) = WindowLen(h) - 1
      /\ \A i : AtOffset(b, i) = AtOffset(h, i)
  BY <1>1, RolledBack
<1>5. ConfirmedLen(b) = ConfirmedLen(h) /\ LastConfirmed(b) = LastConfirmed(h)
  BY <1>1, <1>4 DEF ConfirmedLen, LastConfirmed
<1>6. v # Fail
  BY HashUnitAssumption
<1>7. Stamped(b, r.hasher, Point(v, t)) => Stamped(h, r.hasher, Point(v, t))
  BY <1>4, <1>5 DEF Stamped
<1>8. Grown(b, r.hasher, Point(v, t)) => Grown(h, r.hasher, Point(v, t))
  BY <1>4, <1>5 DEF Grown
<1>9. Outcome(h, r, v, t)
  BY <1>1, <1>3, <1>5, <1>6, <1>7, <1>8 DEF Outcome
<1> QED
  BY <1>2, <1>9

LEMMA CleanFailReportOutcome ==
  ASSUME NEW h \in ValueHasher, Geometry(h), h.state = "FailReported",
         NEW v \in Values, NEW t \in Nat
  PROVE  Outcome(h, CleanFailReport(h, v, t), v, t)
<1> DEFINE p == PushSlot(h, v, t)
           q1 == [p EXCEPT !.state = "Normal"]
           q2 == [q1 EXCEPT !.is_resolving_duplicate = FALSE]
           g == [q2 EXCEPT !.last_emitted_ts = t]
<1>1. v \in Measures
  BY DEF Measures
<1>2. p \in ValueHasher /\ p.hashed_values[p.head] = Point(v, t)
  BY <1>1, PushSlotFacts
<1>3. CleanFailReport(h, v, t) = CurrentVal(g)
  BY DEF CleanFailReport
<1> HIDE DEF p
<1>4. q1 \in ValueHasher
  BY <1>2 DEF ValueHasher, HashState
<1>5. q2 \in ValueHasher
  BY <1>4 DEF ValueHasher
<1>6. /\ g.head = p.head /\ g.tail = p.tail /\ g.hashed_values = p.hashed_values
      /\ g.state = "Normal"
  BY <1>2, <1>5 DEF ValueHasher
<1> HIDE DEF g
<1>7. Grown(h, g, Point(v, t))
  BY <1>1, <1>6, PushSlotGrows DEF p
<1> QED
  BY <1>2, <1>3, <1>6, <1>7 DEF Outcome, CurrentVal

LEMMA AddFailOutcome ==
  ASSUME NEW h \in ValueHasher, Geometry(h), NEW t \in Nat,
         h.state = "InFail" => h.hashed_values[h.head].val = Fail
  PROVE  Outcome(h, AddFail(h, Fail, t), Fail, t)
<1> DEFINE r == AddFail(h, Fail, t)
<1>1. /\ Fail \in Measures /\ h.state \in HashState /\ h.head \in Slots
      /\ h.hashed_values \in [Slots -> HashedValue]
      /\ SlotBefore(h.head) \in Slots /\ SlotBefore(h.head) # h.head
  BY SlotNeighbours DEF Measures, ValueHasher
<1>2. Point(Fail, t).timestamp = t
  BY <1>1, PointType
<1>3. CASE h.state = "Normal"
  <2> DEFINE p == PushSlot(h, Fail, t)
             g == [p EXCEPT !.state = "InFail"]
  <2>1. /\ p \in ValueHasher /\ Geometry(p)
        /\ WindowLen(p) > 1
        /\ \E k \in {0, 1} :
             /\ WindowLen(p) = WindowLen(h) + 1 - k
             /\ \A i \in 0 .. WindowLen(p) - 2 : AtOffset(p, i) = AtOffset(h, i + k)
    BY <1>1, PushSlotWindow
  <2>2. p.hashed_values[p.head] = Point(Fail, t)
    BY <1>1, PushSlotFacts
  <2>3. r = IF t - g.hashed_values[g.head].timestamp > FailureDelta
              THEN CloseDuplicate([g EXCEPT !.hashed_values[g.head].timestamp = t,
                                            !.state = "FailReported"])
              ELSE Nothing(g)
    BY <1>3 DEF AddFail
  <2> HIDE DEF p
  <2>4. /\ g.head = p.head /\ g.tail = p.tail /\ g.hashed_values = p.hashed_values
        /\ g.state = "InFail"
    BY <2>1 DEF ValueHasher
  <2> HIDE DEF g
  <2>5. ~(t - g.hashed_values[g.head].timestamp > FailureDelta)
    BY <1>2, <2>2, <2>4, HashUnitAssumption
  <2>6. r.hasher = g /\ r.now = <<>> /\ r.before = <<>>
    BY <2>3, <2>5 DEF Nothing
  <2>7. WindowLen(g) = WindowLen(p) /\ \A i : AtOffset(g, i) = AtOffset(p, i)
    BY <2>4, SameWindow
  <2>8. WindowLen(p) \in Nat /\ WindowLen(h) \in Nat
    BY <2>1, WindowShape
  <2>9. ConfirmedLen(g) = WindowLen(p) - 1 /\ ConfirmedLen(h) = WindowLen(h)
    BY <1>3, <2>4, <2>7 DEF ConfirmedLen
  <2>10. Kept(h, g)
    BY <2>1, <2>7, <2>8, <2>9 DEF Kept
  <2> QED
    BY <2>6, <2>10 DEF Outcome
<1>4. CASE h.state = "InFail" /\ t - h.hashed_values[h.head].timestamp > FailureDelta
  <2> DEFINE slot == h.hashed_values[h.head]
             before == h.hashed_values[SlotBefore(h.head)]
             stamped == [slot EXCEPT !.timestamp = t]
             q == [h EXCEPT !.hashed_values[h.head] = stamped]
             reported == [q EXCEPT !.state = "FailReported"]
             g == [reported EXCEPT !.is_resolving_duplicate = FALSE]
  <2>1. stamped = Point(Fail, t) /\ stamped \in HashedValue
    BY <1>1, <1>4 DEF HashedValue, Point
  <2>2. r = CloseDuplicate(reported)
    BY <1>4 DEF AddFail
  <2> HIDE DEF stamped
  <2>3. /\ q \in ValueHasher
        /\ q.hashed_values = [h.hashed_values EXCEPT ![h.head] = stamped]
        /\ q.head = h.head /\ q.tail = h.tail /\ q.ring_finished = h.ring_finished
        /\ q.is_resolving_duplicate = h.is_resolving_duplicate
    BY <1>1, <2>1 DEF ValueHasher
  <2> HIDE DEF q
  <2>4. /\ reported \in ValueHasher
        /\ reported.hashed_values = q.hashed_values
        /\ reported.head = h.head /\ reported.tail = h.tail
        /\ reported.ring_finished = h.ring_finished
        /\ reported.is_resolving_duplicate = h.is_resolving_duplicate
        /\ reported.state = "FailReported"
    BY <2>3 DEF ValueHasher, HashState
  <2> HIDE DEF reported
  <2>5. /\ g.hashed_values = q.hashed_values
        /\ g.head = h.head /\ g.tail = h.tail /\ g.state = "FailReported"
    BY <2>4 DEF ValueHasher
  <2>6. reported.ring_finished \/ reported.head > 0
    BY <1>4, <2>4 DEF Geometry
  <2>7. q.hashed_values[h.head] = stamped /\ q.hashed_values[SlotBefore(h.head)] = before
    BY <1>1, <2>3
  <2>8. /\ r.hasher = g
        /\ r.now = <<stamped>>
        /\ r.before = IF h.is_resolving_duplicate THEN <<before>> ELSE <<>>
    BY <2>2, <2>4, <2>6, <2>7, CloseDuplicateFacts
  <2> HIDE DEF g, r
  <2>9. /\ WindowLen(g) = WindowLen(h)
        /\ AtOffset(g, WindowLen(h) - 1) = stamped
        /\ \A i \in 0 .. WindowLen(h) - 2 : AtOffset(g, i) = AtOffset(h, i)
    BY <2>3, <2>5, HeadWritten
  <2>10. LastConfirmed(h) = before /\ ConfirmedLen(h) = WindowLen(h) - 1
    BY <1>4, ConfirmedLenType DEF ConfirmedLen
  <2>11. ConfirmedLen(h) \in Nat \ {0} /\ WindowLen(h) \in Nat
    BY ConfirmedLenType, WindowShape, HashUnitAssumption
  <2>12. Grown(h, g, stamped)
    <3>1. ConfirmedLen(g) = WindowLen(h) /\ ConfirmedLen(g) = ConfirmedLen(h) + 1 - 0
      BY <2>5, <2>9, <2>10, <2>11 DEF ConfirmedLen
    <3>2. LastConfirmed(g) = stamped
      BY <2>9, <3>1 DEF LastConfirmed
    <3>3. \A i \in 0 .. ConfirmedLen(g) - 2 : AtOffset(g, i) = AtOffset(h, i + 0)
      BY <2>9, <2>11, <3>1
    <3>4. ConfirmedLen(g) > 1
      BY <2>11, <3>1
    <3> QED
      BY <3>1, <3>2, <3>3, <3>4 DEF Grown
  <2>13. r.before \in {<<>>, <<before>>} /\ (h.is_resolving_duplicate => r.before = <<before>>)
    BY <2>8
  <2> HIDE DEF before
  <2>14. Outcome(h, r, Fail, t)
    BY <2>1, <2>8, <2>10, <2>12, <2>13 DEF Outcome
  <2> QED
    BY <2>14 DEF r
<1>5. CASE \/ h.state = "InFail" /\ ~(t - h.hashed_values[h.head].timestamp > FailureDelta)
           \/ h.state = "FailReported"
  <2>1. r = Nothing(h)
    BY <1>5 DEF AddFail
  <2>2. ConfirmedLen(h) \in 1 .. Capacity /\ Capacity \in Nat
    BY ConfirmedLenType, HashUnitAssumption
  <2>3. Kept(h, h)
    BY <2>2 DEF Kept
  <2> QED
    BY <2>1, <2>3 DEF Outcome, Nothing
<1> QED
  BY <1>1, <1>3, <1>4, <1>5 DEF HashState

LEMMA AddOutcome ==
  ASSUME NEW h \in ValueHasher, Geometry(h), NEW v \in Measures, NEW t \in Nat,
         h.state = "InFail" => h.hashed_values[h.head].val = Fail
  PROVE  Outcome(h, Add(h, v, t), v, t)
<1>1. h.state \in HashState /\ (v # Fail => v \in Values)
  BY DEF ValueHasher, Measures
<1>2. CASE v = Fail
  BY <1>2, AddFailOutcome DEF Add
<1>3. CASE v # Fail /\ h.state = "Normal"
  BY <1>1, <1>3, AddNormalOutcome DEF Add
<1>4. CASE v # Fail /\ h.state = "InFail"
  BY <1>1, <1>4, AddAfterNoiceOutcome DEF Add
<1>5. CASE v # Fail /\ h.state = "FailReported"
  BY <1>1, <1>5, CleanFailReportOutcome DEF Add
<1> QED
  BY <1>1, <1>2, <1>3, <1>4, <1>5 DEF HashState

-----------------------------------------------------------------------------
(* The queries: the binary search, and the copy of what it found.            *)

LEMMA LeastNat ==
  ASSUME NEW S \in SUBSET Nat, S # {}
  PROVE  \E m \in S : \A n \in S : m <= n
<1>1. IsWellFoundedOn(OpToRel(<, Nat), Nat)
  BY NatLessThanWellFounded
<1>2. PICK m \in S : \A n \in S : ~ (<<n, m>> \in OpToRel(<, Nat))
  BY <1>1, WFMin, Zenon
<1>3. \A n \in S : ~ (n < m)
  BY <1>2 DEF OpToRel
<1> QED
  BY <1>3

Pairs == (0 .. Capacity) \X (0 .. Capacity)
Mid(lr) == lr[1] + (lr[2] - lr[1]) \div 2

\* One turn of the loop, with f for the turns that follow.
Turn(h, target, f, lr) ==
  IF lr[1] >= lr[2] THEN lr[1]
  ELSE IF AtOffset(h, Mid(lr)).timestamp < target
         THEN f[<<Mid(lr) + 1, lr[2]>>]
         ELSE f[<<lr[1], Mid(lr)>>]

IsSearch(h, target, f) == f = [lr \in Pairs |-> Turn(h, target, f, lr)]

\* The loop narrows the pair.
LEMMA Narrows ==
  ASSUME NEW lr \in Pairs, lr[1] < lr[2]
  PROVE  /\ Mid(lr) \in Nat /\ lr[1] <= Mid(lr) /\ Mid(lr) < lr[2]
         /\ <<Mid(lr) + 1, lr[2]>> \in Pairs /\ <<lr[1], Mid(lr)>> \in Pairs
         /\ lr[1] \in Nat /\ lr[2] \in Nat /\ lr[2] <= Capacity
<1>1. Capacity \in Nat
  BY HashUnitAssumption
<1>2. PICK l \in 0 .. Capacity, r \in 0 .. Capacity : lr = <<l, r>>
  BY DEF Pairs
<1>3. lr[1] = l /\ lr[2] = r /\ l < r
  BY <1>2
<1>4. Mid(lr) \in Nat /\ l <= Mid(lr) /\ Mid(lr) < r
  BY <1>1, <1>3 DEF Mid
<1>5. Mid(lr) \in 0 .. Capacity /\ Mid(lr) + 1 \in 0 .. Capacity
  BY <1>1, <1>4
<1> QED
  BY <1>1, <1>3, <1>4, <1>5 DEF Pairs

\* f does what the loop does for the pairs at most k apart.
Searches(h, target, f, k) ==
  \A lr \in Pairs : lr[2] - lr[1] <= k => f[lr] = Turn(h, target, f, lr)

LEMMA SearchOfNothing ==
  ASSUME NEW h, NEW target
  PROVE  Searches(h, target, [lr \in Pairs |-> lr[1]], 0)
<1> DEFINE f == [lr \in Pairs |-> lr[1]]
<1> SUFFICES ASSUME NEW lr \in Pairs, lr[2] - lr[1] <= 0
             PROVE  f[lr] = Turn(h, target, f, lr)
  BY DEF Searches
<1>1. lr[1] \in Nat /\ lr[2] \in Nat
  BY HashUnitAssumption DEF Pairs
<1>2. f[lr] = lr[1]
  OBVIOUS
<1> HIDE DEF f
<1>3. lr[1] >= lr[2]
  BY <1>1
<1> QED
  BY <1>2, <1>3 DEF Turn

LEMMA SearchOfOneMore ==
  ASSUME NEW h, NEW target, NEW f, NEW k \in Nat \ {0}, Searches(h, target, f, k - 1)
  PROVE  \E g : Searches(h, target, g, k)
<1> DEFINE g == [lr \in Pairs |-> IF lr[2] - lr[1] = k THEN Turn(h, target, f, lr)
                                                       ELSE f[lr]]
<1>1. ASSUME NEW lr \in Pairs, lr[2] - lr[1] <= k
      PROVE  g[lr] = Turn(h, target, g, lr)
  <2>1. g[lr] = IF lr[2] - lr[1] = k THEN Turn(h, target, f, lr) ELSE f[lr]
    OBVIOUS
  <2>2. \A x \in Pairs : x[2] - x[1] # k => g[x] = f[x]
    OBVIOUS
  <2> HIDE DEF g
  <2>3. lr[1] \in Nat /\ lr[2] \in Nat
    BY HashUnitAssumption DEF Pairs
  <2>4. lr[2] - lr[1] # k => lr[2] - lr[1] <= k - 1
    BY <1>1, <2>3
  <2>5. g[lr] = Turn(h, target, f, lr)
    BY <2>1, <2>4 DEF Searches
  <2>6. CASE lr[1] < lr[2]
    <3>1. /\ Mid(lr) \in Nat /\ lr[1] <= Mid(lr) /\ Mid(lr) < lr[2]
          /\ <<Mid(lr) + 1, lr[2]>> \in Pairs /\ <<lr[1], Mid(lr)>> \in Pairs
      BY <2>6, Narrows
    <3>2. lr[2] - (Mid(lr) + 1) # k /\ Mid(lr) - lr[1] # k
      BY <1>1, <2>3, <3>1
    <3>3. /\ g[<<Mid(lr) + 1, lr[2]>>] = f[<<Mid(lr) + 1, lr[2]>>]
          /\ g[<<lr[1], Mid(lr)>>] = f[<<lr[1], Mid(lr)>>]
      BY <2>2, <3>1, <3>2
    <3> QED
      BY <2>5, <3>3 DEF Turn
  <2>7. CASE lr[1] >= lr[2]
    BY <2>5, <2>7 DEF Turn
  <2> QED
    BY <2>3, <2>6, <2>7
<1> QED
  BY <1>1 DEF Searches

LEMMA SearchExists ==
  ASSUME NEW h, NEW target
  PROVE  \E f : IsSearch(h, target, f)
<1> DEFINE Bad == {k \in Nat : ~ \E f : Searches(h, target, f, k)}
<1>1. Capacity \in Nat
  BY HashUnitAssumption
<1>2. Bad = {}
  <2> SUFFICES ASSUME Bad # {} PROVE FALSE
    OBVIOUS
  <2>1. PICK k \in Bad : \A n \in Bad : k <= n
    <3>1. Bad \in SUBSET Nat
      OBVIOUS
    <3> HIDE DEF Bad
    <3> QED
      BY <3>1, LeastNat
  <2>2. k \in Nat /\ k # 0
    BY <2>1, SearchOfNothing
  <2>3. k - 1 \in Nat /\ ~(k <= k - 1)
    BY <2>2
  <2>4. k - 1 \notin Bad
    <3> HIDE DEF Bad
    <3> QED
      BY <2>1, <2>3
  <2>5. PICK f : Searches(h, target, f, k - 1)
    BY <2>3, <2>4
  <2> QED
    BY <2>1, <2>2, <2>5, SearchOfOneMore
<1>3. PICK f : Searches(h, target, f, Capacity)
  BY <1>1, <1>2
<1> DEFINE g == [lr \in Pairs |-> f[lr]]
<1>4. ASSUME NEW lr \in Pairs
      PROVE  f[lr] = Turn(h, target, g, lr)
  <2>1. lr[1] \in Nat /\ lr[2] \in Nat /\ lr[2] - lr[1] <= Capacity
    BY <1>1 DEF Pairs
  <2>2. f[lr] = Turn(h, target, f, lr)
    BY <1>3, <2>1 DEF Searches
  <2>3. CASE lr[1] < lr[2]
    BY <2>2, <2>3, Narrows DEF Turn
  <2>4. CASE lr[1] >= lr[2]
    BY <2>2, <2>4 DEF Turn
  <2> QED
    BY <2>1, <2>3, <2>4
<1>5. g = [lr \in Pairs |-> Turn(h, target, g, lr)]
  BY <1>4
<1> QED
  BY <1>5 DEF IsSearch

\* Where the points of a window not before target begin.
IsLowerBound(h, target, b) ==
  /\ b \in 0 .. WindowLen(h)
  /\ \A i \in 0 .. b - 1 : AtOffset(h, i).timestamp < target
  /\ \A i \in b .. WindowLen(h) - 1 : ~ (AtOffset(h, i).timestamp < target)

LEMMA SearchFinds ==
  ASSUME NEW h \in ValueHasher, Geometry(h), NEW target, NEW b, IsLowerBound(h, target, b)
  PROVE  LowerBoundRing(h, target) = b
<1> DEFINE search == CHOOSE f : IsSearch(h, target, f)
           n == WindowLen(h)
<1>1. Capacity \in Nat /\ n \in 1 .. Capacity /\ b \in 0 .. n
  BY HashUnitAssumption, WindowShape DEF IsLowerBound
<1>2. LowerBoundRing(h, target) = search[<<0, n>>]
  BY DEF LowerBoundRing, IsSearch, Pairs, Turn, Mid
<1>3. \A lr \in Pairs : search[lr] = Turn(h, target, search, lr)
  <2>1. IsSearch(h, target, search)
    BY SearchExists
  <2> HIDE DEF search
  <2> QED
    BY <2>1 DEF IsSearch
<1>4. /\ \A i \in 0 .. b - 1 : AtOffset(h, i).timestamp < target
      /\ \A i \in b .. n - 1 : ~ (AtOffset(h, i).timestamp < target)
  BY DEF IsLowerBound
<1> HIDE DEF search, n
<1> DEFINE Around(lr) == lr[1] <= b /\ b <= lr[2] /\ lr[2] <= n
           Bad == {k \in Nat : \E lr \in Pairs : Around(lr) /\ lr[2] - lr[1] = k
                                                /\ search[lr] # b}
<1>5. Bad = {}
  <2> SUFFICES ASSUME Bad # {} PROVE FALSE
    OBVIOUS
  <2>1. PICK k \in Bad : \A m \in Bad : k <= m
    <3>1. Bad \in SUBSET Nat
      OBVIOUS
    <3> HIDE DEF Bad
    <3> QED
      BY <3>1, LeastNat
  <2>2. PICK lr \in Pairs : Around(lr) /\ lr[2] - lr[1] = k /\ search[lr] # b
    BY <2>1
  <2>3. search[lr] = Turn(h, target, search, lr)
    BY <1>3
  <2>4. \A x \in Pairs : (x[2] - x[1] \in Nat /\ x[2] - x[1] < k /\ Around(x)) => search[x] = b
    <3> SUFFICES ASSUME NEW x \in Pairs, x[2] - x[1] \in Nat, x[2] - x[1] < k, Around(x),
                        search[x] # b
                 PROVE  FALSE
      OBVIOUS
    <3>1. x[2] - x[1] \in Bad
      OBVIOUS
    <3> QED
      BY <2>1, <3>1
  <2> HIDE DEF Bad
  <2>5. lr[1] \in Nat /\ lr[2] \in Nat
    BY <1>1 DEF Pairs
  <2>6. CASE lr[1] >= lr[2]
    BY <1>1, <2>2, <2>3, <2>5, <2>6 DEF Turn
  <2>7. CASE lr[1] < lr[2]
    <3> DEFINE mid == Mid(lr)
    <3>1. /\ mid \in Nat /\ lr[1] <= mid /\ mid < lr[2]
          /\ <<mid + 1, lr[2]>> \in Pairs /\ <<lr[1], mid>> \in Pairs
      BY <2>7, Narrows
    <3>2. search[lr] = IF AtOffset(h, mid).timestamp < target
                         THEN search[<<mid + 1, lr[2]>>] ELSE search[<<lr[1], mid>>]
      BY <2>3, <2>5, <2>7 DEF Turn
    <3> HIDE DEF mid
    <3>3. mid < b <=> AtOffset(h, mid).timestamp < target
      <4>1. mid \in 0 .. b - 1 \/ mid \in b .. n - 1
        BY <1>1, <2>2, <2>5, <3>1
      <4> QED
        BY <1>1, <1>4, <3>1, <4>1
    <3>4. CASE mid < b
      <4> DEFINE x == <<mid + 1, lr[2]>>
      <4>1. x \in Pairs /\ x[1] = mid + 1 /\ x[2] = lr[2]
        BY <3>1
      <4> HIDE DEF x
      <4>2. Around(x) /\ x[2] - x[1] \in Nat /\ x[2] - x[1] < k
        BY <1>1, <2>2, <2>5, <3>1, <3>4, <4>1
      <4>3. search[lr] = search[x]
        BY <3>2, <3>3, <3>4 DEF x
      <4> QED
        BY <2>2, <2>4, <4>1, <4>2, <4>3
    <3>5. CASE ~(mid < b)
      <4> DEFINE x == <<lr[1], mid>>
      <4>1. x \in Pairs /\ x[1] = lr[1] /\ x[2] = mid
        BY <3>1
      <4> HIDE DEF x
      <4>2. Around(x) /\ x[2] - x[1] \in Nat /\ x[2] - x[1] < k
        BY <1>1, <2>2, <2>5, <3>1, <3>5, <4>1
      <4>3. search[lr] = search[x]
        BY <3>2, <3>3, <3>5 DEF x
      <4> QED
        BY <2>2, <2>4, <4>1, <4>2, <4>3
    <3> QED
      BY <3>4, <3>5
  <2> QED
    BY <2>5, <2>6, <2>7
<1>6. search[<<0, n>>] = b
  <2>1. <<0, n>> \in Pairs /\ <<0, n>>[1] = 0 /\ <<0, n>>[2] = n
    BY <1>1 DEF Pairs
  <2>2. Around(<<0, n>>) /\ <<0, n>>[2] - <<0, n>>[1] \in Nat
    BY <1>1, <2>1
  <2> QED
    BY <1>5, <2>1, <2>2
<1> QED
  BY <1>2, <1>6

\* What the rows are after one or two more.
LEMMA AppendRows ==
  ASSUME NEW l \in Seq(HashedValue), NEW p \in HashedValue, NEW q \in HashedValue
  PROVE  /\ Len(Append(l, q)) = Len(l) + 1
         /\ \A i \in 1 .. Len(l) : Append(l, q)[i] = l[i]
         /\ Append(l, q)[Len(l) + 1] = q
         /\ Len(l \o <<p, q>>) = Len(l) + 2
         /\ \A i \in 1 .. Len(l) : (l \o <<p, q>>)[i] = l[i]
         /\ (l \o <<p, q>>)[Len(l) + 1] = p
         /\ (l \o <<p, q>>)[Len(l) + 2] = q
OBVIOUS

\* A sorted window has a lower bound for every target.
LEMMA BoundExists ==
  ASSUME NEW h \in ValueHasher, Geometry(h), NEW target \in Nat,
         \A i, j \in 0 .. WindowLen(h) - 1 :
           i < j => AtOffset(h, i).timestamp <= AtOffset(h, j).timestamp
  PROVE  \E b : IsLowerBound(h, target, b)
<1> DEFINE n == WindowLen(h)
           S == {i \in 0 .. n : i = n \/ ~ (AtOffset(h, i).timestamp < target)}
<1>1. n \in Nat
  BY WindowShape, HashUnitAssumption
<1>2. \A i \in 0 .. n - 1 : AtOffset(h, i).timestamp \in Nat
  BY WindowShape DEF ValueHasher, HashedValue
<1>3. PICK b \in S : \A i \in S : b <= i
  <2>1. S \in SUBSET Nat /\ n \in S
    BY <1>1
  <2> HIDE DEF S
  <2> QED
    BY <2>1, LeastNat
<1>4. \A i \in 0 .. b - 1 : AtOffset(h, i).timestamp < target
  <2> SUFFICES ASSUME NEW i \in 0 .. b - 1, ~ (AtOffset(h, i).timestamp < target)
               PROVE  FALSE
    OBVIOUS
  <2>1. i \in 0 .. n /\ ~(b <= i)
    BY <1>1
  <2>2. i \in S
    BY <2>1
  <2> QED
    BY <1>3, <2>1, <2>2
<1>5. \A i \in b .. n - 1 : ~ (AtOffset(h, i).timestamp < target)
  <2> SUFFICES ASSUME NEW i \in b .. n - 1 PROVE ~ (AtOffset(h, i).timestamp < target)
    OBVIOUS
  <2>1. b \in 0 .. n - 1 /\ i \in 0 .. n - 1 /\ b # n /\ (i = b \/ b < i)
    BY <1>1, <1>3
  <2>2. AtOffset(h, b).timestamp <= AtOffset(h, i).timestamp
    BY <1>2, <2>1
  <2>3. ~ (AtOffset(h, b).timestamp < target)
    BY <1>3, <2>1
  <2> QED
    BY <1>2, <2>1, <2>2, <2>3
<1> QED
  BY <1>3, <1>4, <1>5 DEF IsLowerBound

\* The points at first .. last - 1, each of them written.
Cut(h, first, i) == [j \in 1 .. i - first |-> AtOffset(h, first + j - 1)]

\* One turn of the loop that copies them, with f for the turns before.
Copied(h, first, f, i) ==
  IF i = first THEN <<>>
  ELSE IF AtOffset(h, i - 1).timestamp = 0
         THEN f[i - 1]
         ELSE Append(f[i - 1], AtOffset(h, i - 1))

IsCopy(h, first, last, f) == f = [i \in first .. last |-> Copied(h, first, f, i)]

LEMMA CutOneMore ==
  ASSUME NEW h, NEW first \in Nat, NEW i \in Nat, first < i,
         \A k \in first .. i - 1 : AtOffset(h, k) \in HashedValue
  PROVE  Append(Cut(h, first, i - 1), AtOffset(h, i - 1)) = Cut(h, first, i)
<1> DEFINE s == Cut(h, first, i - 1)
           x == AtOffset(h, i - 1)
           c == Cut(h, first, i)
           n == i - 1 - first
<1>1. n \in Nat /\ i - first = n + 1 /\ (i - 1) - first = n
  OBVIOUS
<1>2. \A j \in 1 .. n + 1 : first + j - 1 \in first .. i - 1
  BY <1>1
<1>3. s = [j \in 1 .. n |-> AtOffset(h, first + j - 1)]
  BY <1>1 DEF Cut
<1>4. c = [j \in 1 .. n + 1 |-> AtOffset(h, first + j - 1)]
  BY <1>1 DEF Cut
<1>5. s \in Seq(HashedValue) /\ Len(s) = n /\ x \in HashedValue
  BY <1>1, <1>2, <1>3
<1>6. c \in Seq(HashedValue) /\ Len(c) = n + 1
  BY <1>1, <1>2, <1>4
<1>7. \A j \in 1 .. n : c[j] = s[j]
  BY <1>1, <1>3, <1>4
<1>8. c[n + 1] = x
  <2>1. n + 1 \in 1 .. n + 1 /\ first + (n + 1) - 1 = i - 1
    BY <1>1
  <2> QED
    BY <1>4, <2>1
<1> HIDE DEF s, x, c, n
<1>9. Append(s, x) \in Seq(HashedValue) /\ Len(Append(s, x)) = n + 1
      /\ (\A j \in 1 .. n : Append(s, x)[j] = s[j]) /\ Append(s, x)[n + 1] = x
  BY <1>1, <1>5, AppendRows
<1>10. \A j \in 1 .. n + 1 : j \in 1 .. n \/ j = n + 1
  BY <1>1
<1>11. Append(s, x) = c
  BY <1>1, <1>6, <1>7, <1>8, <1>9, <1>10
<1> QED
  BY <1>11 DEF s, x, c

LEMMA CopyIsCut ==
  ASSUME NEW h, NEW first \in Nat, NEW last \in Nat, first <= last,
         \A k \in first .. last - 1 :
           AtOffset(h, k) \in HashedValue /\ AtOffset(h, k).timestamp # 0
  PROVE  PointsBetween(h, first, last) = Cut(h, first, last)
<1> DEFINE upto == CHOOSE f : IsCopy(h, first, last, f)
<1>1. PointsBetween(h, first, last) = upto[last]
  BY DEF PointsBetween, IsCopy, Copied
<1>2. \A i \in first .. last : i # first => Append(Cut(h, first, i - 1), AtOffset(h, i - 1))
                                              = Cut(h, first, i)
  <2> SUFFICES ASSUME NEW i \in first .. last, i # first
               PROVE  Append(Cut(h, first, i - 1), AtOffset(h, i - 1)) = Cut(h, first, i)
    OBVIOUS
  <2>1. i \in Nat /\ first < i /\ \A k \in first .. i - 1 : k \in first .. last - 1
    OBVIOUS
  <2> QED
    BY <2>1, CutOneMore
<1>3. Cut(h, first, first) = <<>>
  BY DEF Cut
<1>4. \E f : IsCopy(h, first, last, f)
  <2> DEFINE f == [i \in first .. last |-> Cut(h, first, i)]
  <2>1. ASSUME NEW i \in first .. last PROVE Copied(h, first, f, i) = Cut(h, first, i)
    <3>1. CASE i = first
      BY <1>3, <3>1 DEF Copied
    <3>2. CASE i # first
      <4>1. i - 1 \in first .. last /\ i - 1 \in first .. last - 1
        BY <3>2
      <4>2. f[i - 1] = Cut(h, first, i - 1)
        BY <4>1
      <4> HIDE DEF f
      <4> QED
        BY <1>2, <3>2, <4>1, <4>2 DEF Copied
    <3> QED
      BY <3>1, <3>2
  <2>2. f = [i \in first .. last |-> Copied(h, first, f, i)]
    BY <2>1
  <2> QED
    BY <2>2 DEF IsCopy
<1>5. \A i \in first .. last : upto[i] = Copied(h, first, upto, i)
  <2>1. IsCopy(h, first, last, upto)
    BY <1>4
  <2> HIDE DEF upto
  <2> QED
    BY <2>1 DEF IsCopy
<1> HIDE DEF upto
<1> DEFINE Bad == {i \in first .. last : upto[i] # Cut(h, first, i)}
<1>6. Bad = {}
  <2> SUFFICES ASSUME Bad # {} PROVE FALSE
    OBVIOUS
  <2>1. PICK i \in Bad : \A k \in Bad : i <= k
    <3>1. Bad \in SUBSET Nat
      OBVIOUS
    <3> HIDE DEF Bad
    <3> QED
      BY <3>1, LeastNat
  <2>2. i \in first .. last /\ upto[i] # Cut(h, first, i)
    BY <2>1
  <2>3. i # first
    BY <1>3, <1>5, <2>2 DEF Copied
  <2>4. i - 1 \in first .. last /\ i - 1 \in first .. last - 1 /\ ~(i <= i - 1)
    BY <2>2, <2>3
  <2>5. upto[i - 1] = Cut(h, first, i - 1)
    BY <2>1, <2>4
  <2> HIDE DEF Bad
  <2>6. upto[i] = Append(upto[i - 1], AtOffset(h, i - 1))
    BY <1>5, <2>2, <2>3, <2>4 DEF Copied
  <2> QED
    BY <1>2, <2>2, <2>3, <2>5, <2>6
<1>7. upto[last] = Cut(h, first, last)
  <2>1. last \in first .. last
    OBVIOUS
  <2> QED
    BY <1>6, <2>1
<1> QED
  BY <1>1, <1>7

-----------------------------------------------------------------------------
(* The branches of add.  Each hands out rows that TagHistory allows and      *)
(* leaves a hasher whose head continues the last row.                        *)

\* The rows of one call, after row and a sample at time s: none, or the new point,
\* or the end of the plateau and the new point.
RowsOf(r, row, s, v, t) ==
  /\ r.now = <<Point(v, t)>>
  /\ \/ /\ v = row.val /\ r.before = <<>>
        /\ t - row.timestamp > IF v = Fail THEN FailureDelta ELSE StableDelta
     \/ v # row.val /\ r.before = <<>>
     \/ /\ v # row.val /\ row.val # Fail
        /\ \E e \in row.timestamp .. s :
             /\ r.before = <<Point(row.val, e)>>
             /\ 0 \notin Steps => row.timestamp < e

LEMMA AddNormalFacts ==
  ASSUME NEW h \in ValueHasher, Geometry(h), h.state = "Normal",
         NEW row \in HashedValue, NEW s \in Nat, NEW t \in Nat,
         s <= t, 0 \notin Steps => s < t,
         Continues(h, h.hashed_values[h.head], row, s),
         NEW v \in Values
  PROVE  LET r == AddNormal(h, v, t)
             g == r.hasher
         IN  /\ g \in ValueHasher /\ Geometry(g) /\ g.state = "Normal"
             /\ \/ /\ r.now = <<>> /\ r.before = <<>>
                   /\ v = row.val /\ t - row.timestamp <= StableDelta
                   /\ Continues(g, g.hashed_values[g.head], row, t)
                \/ /\ RowsOf(r, row, s, v, t)
                   /\ Continues(g, g.hashed_values[g.head], Point(v, t), t)
<1> DEFINE r == AddNormal(h, v, t)
           slot == h.hashed_values[h.head]
           p == PushSlot(h, v, t)
<1>1. h.head \in Slots /\ slot \in HashedValue /\ h.last_emitted_ts \in Nat
  BY DEF ValueHasher
<1>2. /\ v \in Measures /\ v # Fail
      /\ row.val \in Measures /\ row.timestamp \in Nat
      /\ slot.val \in Measures /\ slot.timestamp \in Nat
  BY <1>1, HashUnitAssumption DEF Measures, HashedValue
<1>3. /\ Point(v, t) \in HashedValue
      /\ Point(v, t).val = v /\ Point(v, t).timestamp = t
  BY <1>2, PointType
<1>4. /\ p \in ValueHasher
      /\ p.head = SlotAfter(h.head)
      /\ p.hashed_values[p.head] = Point(v, t)
      /\ p.hashed_values[h.head] = slot
      /\ p.ring_finished => p.tail = SlotAfter(p.head)
      /\ ~p.ring_finished => p.tail = 0 /\ p.current = p.head /\ p.head > 0
      /\ p.state = "Normal"
      /\ p.is_resolving_duplicate = h.is_resolving_duplicate
  BY <1>2, PushSlotFacts
<1>5. /\ slot.val = row.val /\ h.last_emitted_ts = row.timestamp
      /\ row.timestamp <= slot.timestamp /\ slot.timestamp <= s
  BY <1>2 DEF Continues
<1> HIDE DEF p, slot
<1>6. CASE slot.val = v /\ t - h.last_emitted_ts > StableDelta
  <2> DEFINE q == [p EXCEPT !.last_emitted_ts = t]
             g == [q EXCEPT !.is_resolving_duplicate = FALSE]
  <2>1. q \in ValueHasher
    BY <1>4 DEF ValueHasher
  <2>2. /\ g \in ValueHasher
        /\ g.head = p.head /\ g.tail = p.tail /\ g.current = p.current
        /\ g.ring_finished = p.ring_finished /\ g.hashed_values = p.hashed_values
        /\ g.state = p.state /\ g.last_emitted_ts = t
        /\ g.is_resolving_duplicate = FALSE
    BY <1>4, <2>1 DEF ValueHasher
  <2>3. r = CurrentVal(g)
    BY <1>6 DEF AddNormal, p, slot
  <2> HIDE DEF g
  <2>4. r.hasher = g /\ r.now = <<Point(v, t)>> /\ r.before = <<>>
    BY <1>4, <2>2, <2>3 DEF CurrentVal
  <2>5. Geometry(g)
    BY <1>4, <2>2 DEF Geometry
  <2>6. Continues(g, g.hashed_values[g.head], Point(v, t), t)
    BY <1>3, <1>4, <2>2 DEF Continues
  <2>7. RowsOf(r, row, s, v, t)
    BY <1>2, <1>5, <1>6, <2>4 DEF RowsOf
  <2> QED
    BY <1>4, <2>2, <2>4, <2>5, <2>6, <2>7
<1>7. CASE slot.val = v /\ ~(t - h.last_emitted_ts > StableDelta)
  <2> DEFINE q == [h EXCEPT !.is_resolving_duplicate = TRUE]
             g == [q EXCEPT !.hashed_values[h.head].timestamp = t]
  <2>1. /\ q \in ValueHasher
        /\ q.hashed_values = h.hashed_values
        /\ q.head = h.head /\ q.tail = h.tail /\ q.current = h.current
        /\ q.ring_finished = h.ring_finished
        /\ q.state = h.state /\ q.last_emitted_ts = h.last_emitted_ts
        /\ q.is_resolving_duplicate = TRUE
    BY DEF ValueHasher
  <2> DEFINE moved == [slot EXCEPT !.timestamp = t]
  <2>2. moved \in HashedValue /\ moved.val = v /\ moved.timestamp = t
    BY <1>1, <1>7 DEF HashedValue, slot
  <2>3. g = [q EXCEPT !.hashed_values = [h.hashed_values EXCEPT ![h.head] = moved]]
    BY <2>1 DEF slot
  <2>4. r = Nothing(g)
    BY <1>7 DEF AddNormal, slot
  <2> HIDE DEF moved, q, g
  <2>5. /\ g \in ValueHasher
        /\ g.hashed_values = [h.hashed_values EXCEPT ![h.head] = moved]
        /\ g.head = h.head /\ g.tail = h.tail /\ g.current = h.current
        /\ g.ring_finished = h.ring_finished
        /\ g.state = h.state /\ g.last_emitted_ts = h.last_emitted_ts
        /\ g.is_resolving_duplicate = TRUE
    BY <1>1, <2>1, <2>2, <2>3 DEF ValueHasher
  <2>6. r.hasher = g /\ r.now = <<>> /\ r.before = <<>>
    BY <2>4 DEF Nothing
  <2>7. g.hashed_values[g.head] = moved
    BY <1>1, <2>5 DEF ValueHasher
  <2>8. Geometry(g)
    BY <2>5 DEF Geometry
  <2>9. Continues(g, g.hashed_values[g.head], row, t)
    BY <1>2, <1>5, <1>7, <2>2, <2>5, <2>7 DEF Continues
  <2>10. v = row.val /\ t - row.timestamp <= StableDelta
    BY <1>2, <1>5, <1>7, HashUnitAssumption
  <2> QED
    BY <2>5, <2>6, <2>8, <2>9, <2>10
<1>8. CASE slot.val # v
  <2> DEFINE q == [p EXCEPT !.last_emitted_ts = t]
             g == [q EXCEPT !.is_resolving_duplicate = FALSE]
  <2>1. /\ q \in ValueHasher
        /\ q.head = p.head /\ q.tail = p.tail /\ q.current = p.current
        /\ q.ring_finished = p.ring_finished /\ q.hashed_values = p.hashed_values
        /\ q.state = p.state /\ q.last_emitted_ts = t
        /\ q.is_resolving_duplicate = h.is_resolving_duplicate
    BY <1>4 DEF ValueHasher
  <2> HIDE DEF q
  <2>2. /\ g \in ValueHasher
        /\ g.head = p.head /\ g.tail = p.tail /\ g.current = p.current
        /\ g.ring_finished = p.ring_finished /\ g.hashed_values = p.hashed_values
        /\ g.state = p.state /\ g.last_emitted_ts = t
        /\ g.is_resolving_duplicate = FALSE
    BY <2>1 DEF ValueHasher
  <2>3. r = CloseDuplicate(q)
    BY <1>8 DEF AddNormal, p, slot, q
  <2>4. SlotBefore(q.head) = h.head
    BY <1>1, <1>4, <2>1, SlotNeighbours
  <2>5. /\ r.hasher = g
        /\ r.now = <<Point(v, t)>>
        /\ r.before = IF h.is_resolving_duplicate THEN <<slot>> ELSE <<>>
    BY <1>4, <2>1, <2>3, <2>4, CloseDuplicateFacts
  <2> HIDE DEF g
  <2>6. Geometry(g)
    BY <1>4, <2>2 DEF Geometry
  <2>7. Continues(g, g.hashed_values[g.head], Point(v, t), t)
    BY <1>3, <1>4, <2>2 DEF Continues
  <2>8. slot = Point(row.val, slot.timestamp)
    BY <1>1, <1>5 DEF HashedValue, Point
  <2>9. CASE h.is_resolving_duplicate
    <3>1. slot.timestamp \in row.timestamp .. s
      BY <1>2, <1>5
    <3>2. row.val # Fail /\ (0 \notin Steps => row.timestamp < slot.timestamp)
      BY <1>2, <1>5, <2>9 DEF Continues, slot
    <3> QED
      BY <1>4, <1>5, <1>8, <2>2, <2>5, <2>6, <2>7, <2>8, <2>9, <3>1, <3>2 DEF RowsOf
  <2>10. CASE ~h.is_resolving_duplicate
    <3>1. r.before = <<>>
      BY <2>5, <2>10, Zenon
    <3> QED
      BY <1>4, <1>5, <1>8, <2>2, <2>5, <2>6, <2>7, <3>1 DEF RowsOf
  <2> QED
    BY <2>9, <2>10
<1> QED
  BY <1>6, <1>7, <1>8

LEMMA AddAfterNoiceFacts ==
  ASSUME NEW h \in ValueHasher, Geometry(h), h.state = "InFail",
         NEW row \in HashedValue, NEW s \in Nat, NEW t \in Nat,
         s <= t, 0 \notin Steps => s < t,
         InStep(h, row, s),
         NEW v \in Values
  PROVE  LET r == AddAfterNoice(h, v, t)
             g == r.hasher
         IN  /\ g \in ValueHasher /\ Geometry(g) /\ g.state = "Normal"
             /\ \/ /\ r.now = <<>> /\ r.before = <<>>
                   /\ v = row.val /\ t - row.timestamp <= StableDelta
                   /\ Continues(g, g.hashed_values[g.head], row, t)
                \/ /\ RowsOf(r, row, s, v, t)
                   /\ Continues(g, g.hashed_values[g.head], Point(v, t), t)
<1> DEFINE normal == [h EXCEPT !.state = "Normal",
                               !.current = IF h.ring_finished THEN @ ELSE @ - 1]
           b == RollBack(normal)
<1>1. /\ b \in ValueHasher /\ Geometry(b)
      /\ b.head = SlotBefore(h.head)
      /\ b.hashed_values = h.hashed_values
      /\ b.state = "Normal"
      /\ b.last_emitted_ts = h.last_emitted_ts
      /\ b.is_resolving_duplicate = h.is_resolving_duplicate
  BY RollBackFacts
<1>2. AddAfterNoice(h, v, t) = AddNormal(b, v, t)
  BY DEF AddAfterNoice
<1> HIDE DEF b
<1>3. Continues(h, h.hashed_values[SlotBefore(h.head)], row, s)
  BY DEF InStep
<1>4. Continues(b, b.hashed_values[b.head], row, s)
  BY <1>1, <1>3 DEF Continues
<1> QED
  BY <1>1, <1>2, <1>4, AddNormalFacts

LEMMA CleanFailReportFacts ==
  ASSUME NEW h \in ValueHasher, Geometry(h), h.state = "FailReported",
         NEW row \in HashedValue, NEW s \in Nat, NEW t \in Nat,
         InStep(h, row, s),
         NEW v \in Values
  PROVE  LET r == CleanFailReport(h, v, t)
             g == r.hasher
         IN  /\ g \in ValueHasher /\ Geometry(g) /\ g.state = "Normal"
             /\ RowsOf(r, row, s, v, t)
             /\ Continues(g, g.hashed_values[g.head], Point(v, t), t)
<1> DEFINE p == PushSlot(h, v, t)
           q1 == [p EXCEPT !.state = "Normal"]
           q2 == [q1 EXCEPT !.is_resolving_duplicate = FALSE]
           g == [q2 EXCEPT !.last_emitted_ts = t]
<1>1. v \in Measures /\ v # row.val
  BY HashUnitAssumption DEF InStep, Measures
<1>2. /\ p \in ValueHasher
      /\ p.hashed_values[p.head] = Point(v, t)
      /\ p.ring_finished => p.tail = SlotAfter(p.head)
      /\ ~p.ring_finished => p.tail = 0 /\ p.current = p.head /\ p.head > 0
  BY <1>1, PushSlotFacts
<1>3. CleanFailReport(h, v, t) = CurrentVal(g)
  BY DEF CleanFailReport
<1> HIDE DEF p
<1>4. q1 \in ValueHasher
  BY <1>2 DEF ValueHasher, HashState
<1>5. q2 \in ValueHasher
  BY <1>4 DEF ValueHasher
<1>6. /\ g \in ValueHasher
      /\ g.head = p.head /\ g.tail = p.tail /\ g.current = p.current
      /\ g.ring_finished = p.ring_finished /\ g.hashed_values = p.hashed_values
      /\ g.state = "Normal" /\ g.last_emitted_ts = t
      /\ g.is_resolving_duplicate = FALSE
  BY <1>2, <1>5 DEF ValueHasher
<1> HIDE DEF g
<1>7. Geometry(g)
  BY <1>2, <1>6 DEF Geometry
<1>8. Continues(g, g.hashed_values[g.head], Point(v, t), t)
  BY <1>1, <1>2, <1>6, PointType DEF Continues
<1> QED
  BY <1>1, <1>2, <1>3, <1>6, <1>7, <1>8 DEF CurrentVal, RowsOf

\* A failed read opens a slot, or waits, or reports the loss; after the report it
\* changes nothing.
LEMMA AddFailFacts ==
  ASSUME NEW h \in ValueHasher, Geometry(h),
         NEW row \in HashedValue, NEW s \in Nat, NEW t \in Nat, s <= t,
         InStep(h, row, s)
  PROVE  LET r == AddFail(h, Fail, t)
             g == r.hasher
         IN  /\ g \in ValueHasher /\ Geometry(g)
             /\ \/ /\ r.now = <<>> /\ r.before = <<>>
                   /\ InStep(g, row, t)
                   /\ \/ /\ g.state = "InFail" /\ h.state = "Normal"
                         /\ g.hashed_values[g.head].timestamp = t
                      \/ /\ g = h /\ h.state = "InFail"
                         /\ t - h.hashed_values[h.head].timestamp <= FailureDelta
                      \/ g = h /\ h.state = "FailReported"
                \/ /\ RowsOf(r, row, s, Fail, t)
                   /\ InStep(g, Point(Fail, t), t)
                   /\ g.state = "FailReported" /\ h.state = "InFail"
                   /\ t - h.hashed_values[h.head].timestamp > FailureDelta
<1> DEFINE r == AddFail(h, Fail, t)
<1>1. Fail \in Measures /\ row.timestamp \in Nat
  BY DEF Measures, HashedValue
<1>2. /\ Point(Fail, t) \in HashedValue
      /\ Point(Fail, t).val = Fail /\ Point(Fail, t).timestamp = t
  BY <1>1, PointType
<1>3. h.state \in HashState /\ h.head \in Slots
  BY DEF ValueHasher
<1>4. CASE h.state = "Normal"
  <2> DEFINE p == PushSlot(h, Fail, t)
             g == [p EXCEPT !.state = "InFail"]
  <2>1. /\ p \in ValueHasher
        /\ p.head = SlotAfter(h.head)
        /\ p.hashed_values[p.head] = Point(Fail, t)
        /\ p.hashed_values[h.head] = h.hashed_values[h.head]
        /\ p.ring_finished => p.tail = SlotAfter(p.head)
        /\ ~p.ring_finished => p.tail = 0 /\ p.current = p.head /\ p.head > 0
        /\ p.last_emitted_ts = h.last_emitted_ts
        /\ p.is_resolving_duplicate = h.is_resolving_duplicate
    BY <1>1, PushSlotFacts
  <2>2. r = IF t - g.hashed_values[g.head].timestamp > FailureDelta
              THEN CloseDuplicate([g EXCEPT !.hashed_values[g.head].timestamp = t,
                                            !.state = "FailReported"])
              ELSE Nothing(g)
    BY <1>4 DEF AddFail
  <2> HIDE DEF p
  <2>3. /\ g \in ValueHasher
        /\ g.head = p.head /\ g.tail = p.tail /\ g.current = p.current
        /\ g.ring_finished = p.ring_finished /\ g.hashed_values = p.hashed_values
        /\ g.state = "InFail" /\ g.last_emitted_ts = h.last_emitted_ts
        /\ g.is_resolving_duplicate = h.is_resolving_duplicate
    BY <2>1 DEF ValueHasher, HashState
  <2> HIDE DEF g
  <2>4. ~(t - g.hashed_values[g.head].timestamp > FailureDelta)
    BY <1>2, <2>1, <2>3, HashUnitAssumption
  <2>5. r = Nothing(g)
    BY <2>2, <2>4
  <2>6. r.hasher = g /\ r.now = <<>> /\ r.before = <<>>
    BY <2>5 DEF Nothing
  <2>7. Geometry(g)
    BY <2>1, <2>3 DEF Geometry
  <2>8. SlotBefore(g.head) = h.head
    BY <1>3, <2>1, <2>3, SlotNeighbours
  <2>9. Continues(h, h.hashed_values[h.head], row, s)
    BY <1>4 DEF InStep
  <2>10. h.hashed_values[h.head].timestamp \in Nat
    BY <1>3 DEF ValueHasher, HashedValue
  <2>11. Continues(g, g.hashed_values[SlotBefore(g.head)], row, t)
    BY <1>1, <2>1, <2>3, <2>8, <2>9, <2>10 DEF Continues
  <2>12. h.hashed_values[h.head].timestamp <= t
    BY <2>9, <2>10 DEF Continues
  <2>13. InStep(g, row, t)
    BY <1>2, <2>1, <2>3, <2>8, <2>11, <2>12 DEF InStep
  <2> QED
    BY <1>2, <1>4, <2>1, <2>3, <2>6, <2>7, <2>13
<1>5. CASE h.state = "InFail" /\ ~(t - h.hashed_values[h.head].timestamp > FailureDelta)
  <2>1. r = Nothing(h)
    BY <1>5 DEF AddFail
  <2>2. r.hasher = h /\ r.now = <<>> /\ r.before = <<>>
    BY <2>1 DEF Nothing
  <2>3. SlotBefore(h.head) \in Slots
    BY <1>3, SlotNeighbours
  <2>4. /\ h.hashed_values[h.head].timestamp \in Nat
        /\ h.hashed_values[SlotBefore(h.head)].timestamp \in Nat
    BY <1>3, <2>3 DEF ValueHasher, HashedValue
  <2>5. InStep(h, row, t)
    BY <1>5, <2>4 DEF InStep, Continues
  <2>6. t - h.hashed_values[h.head].timestamp <= FailureDelta
    BY <1>5, <2>4, HashUnitAssumption
  <2> QED
    BY <1>5, <2>2, <2>5, <2>6
<1>6. CASE h.state = "InFail" /\ t - h.hashed_values[h.head].timestamp > FailureDelta
  <2> DEFINE slot == h.hashed_values[h.head]
             before == h.hashed_values[SlotBefore(h.head)]
             stamped == [slot EXCEPT !.timestamp = t]
             q == [h EXCEPT !.hashed_values[h.head].timestamp = t]
             reported == [q EXCEPT !.state = "FailReported"]
             g == [reported EXCEPT !.is_resolving_duplicate = FALSE]
  <2>1. SlotBefore(h.head) \in Slots /\ SlotBefore(h.head) # h.head
    BY <1>3, SlotNeighbours
  <2>2. /\ slot \in HashedValue /\ slot.timestamp \in Nat /\ slot.val = Fail
        /\ before \in HashedValue /\ before.timestamp \in Nat
        /\ before.timestamp <= slot.timestamp /\ slot.timestamp <= s
        /\ Continues(h, before, row, s)
    BY <1>3, <1>6, <2>1 DEF ValueHasher, HashedValue, InStep
  <2>3. stamped = Point(Fail, t)
    BY <2>2 DEF HashedValue, Point
  <2>4. r = CloseDuplicate(reported)
    BY <1>6 DEF AddFail
  <2>5. q = [h EXCEPT !.hashed_values = [h.hashed_values EXCEPT ![h.head] = Point(Fail, t)]]
    BY <2>3
  <2> HIDE DEF q
  <2>6. /\ q \in ValueHasher
        /\ q.hashed_values = [h.hashed_values EXCEPT ![h.head] = Point(Fail, t)]
        /\ q.head = h.head /\ q.tail = h.tail /\ q.current = h.current
        /\ q.ring_finished = h.ring_finished
        /\ q.is_resolving_duplicate = h.is_resolving_duplicate
    BY <1>2, <1>3, <2>5 DEF ValueHasher
  <2>7. /\ reported \in ValueHasher
        /\ reported.hashed_values = q.hashed_values
        /\ reported.head = h.head /\ reported.tail = h.tail
        /\ reported.current = h.current
        /\ reported.ring_finished = h.ring_finished
        /\ reported.state = "FailReported"
        /\ reported.is_resolving_duplicate = h.is_resolving_duplicate
    BY <2>6 DEF ValueHasher, HashState
  <2> HIDE DEF reported
  <2>8. /\ g \in ValueHasher
        /\ g.hashed_values = q.hashed_values
        /\ g.head = h.head /\ g.tail = h.tail /\ g.current = h.current
        /\ g.ring_finished = h.ring_finished
        /\ g.state = "FailReported"
        /\ g.is_resolving_duplicate = FALSE
    BY <2>7 DEF ValueHasher
  <2>9. reported.ring_finished \/ reported.head > 0
    BY <1>6, <2>7 DEF Geometry
  <2>10. /\ q.hashed_values[h.head] = Point(Fail, t)
         /\ q.hashed_values[SlotBefore(h.head)] = before
    BY <1>3, <2>1, <2>6 DEF ValueHasher
  <2>11. /\ r.hasher = g
         /\ r.now = <<Point(Fail, t)>>
         /\ r.before = IF h.is_resolving_duplicate THEN <<before>> ELSE <<>>
    BY <2>4, <2>7, <2>9, <2>10, CloseDuplicateFacts
  <2> HIDE DEF g
  <2>12. Geometry(g)
    BY <1>6, <2>8 DEF Geometry
  <2>13. InStep(g, Point(Fail, t), t)
    BY <1>2, <2>8 DEF InStep
  <2>14. before = Point(row.val, before.timestamp)
    BY <2>2 DEF HashedValue, Point, Continues
  <2> HIDE DEF before, slot
  <2>15. RowsOf(r, row, s, Fail, t)
    <3>1. CASE h.is_resolving_duplicate
      <4>1. /\ row.val # Fail /\ before.timestamp \in row.timestamp .. s
            /\ 0 \notin Steps => row.timestamp < before.timestamp
        BY <1>1, <2>2, <3>1 DEF Continues
      <4> QED
        BY <2>11, <2>14, <3>1, <4>1 DEF RowsOf
    <3>2. CASE ~h.is_resolving_duplicate
      <4>1. r.before = <<>> /\ row.timestamp = before.timestamp
        BY <2>2, <2>11, <3>2 DEF Continues, ValueHasher
      <4>2. t - row.timestamp > FailureDelta
        BY <1>6, <2>2, <4>1, HashUnitAssumption DEF slot
      <4> QED
        BY <2>11, <4>1, <4>2 DEF RowsOf
    <3> QED
      BY <3>1, <3>2
  <2> QED
    BY <1>6, <2>8, <2>11, <2>12, <2>13, <2>15
<1>7. CASE h.state = "FailReported"
  <2>1. r = Nothing(h)
    BY <1>7 DEF AddFail
  <2>2. r.hasher = h /\ r.now = <<>> /\ r.before = <<>>
    BY <2>1 DEF Nothing
  <2>3. InStep(h, row, t)
    BY <1>1, <1>7 DEF InStep
  <2> QED
    BY <1>7, <2>2, <2>3
<1> QED
  BY <1>3, <1>4, <1>5, <1>6, <1>7 DEF HashState

\* add as a whole: no row or the rows TagHistory allows, by the branch it takes.
LEMMA AddFacts ==
  ASSUME NEW h \in ValueHasher, Geometry(h),
         NEW row \in HashedValue, NEW s \in Nat, NEW t \in Nat,
         s <= t, 0 \notin Steps => s < t,
         InStep(h, row, s),
         NEW v \in Measures
  PROVE  LET r == Add(h, v, t)
             g == r.hasher
         IN  /\ g \in ValueHasher /\ Geometry(g)
             /\ v # Fail => g.state = "Normal"
             /\ v = Fail => g.state # "Normal"
             /\ \/ /\ r.now = <<>> /\ r.before = <<>>
                   /\ InStep(g, row, t)
                   /\ v # Fail => v = row.val /\ t - row.timestamp <= StableDelta
                   /\ g.state = "InFail" =>
                        \/ /\ h.state = "Normal"
                           /\ g.hashed_values[g.head].timestamp = t
                        \/ /\ g = h
                           /\ t - h.hashed_values[h.head].timestamp <= FailureDelta
                   /\ g.state = "FailReported" => h.state = "FailReported"
                \/ /\ RowsOf(r, row, s, v, t)
                   /\ InStep(g, Point(v, t), t)
                   /\ g.state # "InFail"
                   /\ v = Fail => /\ h.state = "InFail"
                                  /\ t - h.hashed_values[h.head].timestamp > FailureDelta
<1>1. CASE v = Fail
  <2>1. Add(h, v, t) = AddFail(h, Fail, t)
    BY <1>1 DEF Add
  <2> QED
    BY <1>1, <2>1, AddFailFacts
<1>2. CASE v # Fail
  <2> DEFINE r == Add(h, v, t)
             g == r.hasher
  <2>1. v \in Values
    BY <1>2 DEF Measures
  <2>2. /\ g \in ValueHasher /\ Geometry(g) /\ g.state = "Normal"
        /\ \/ /\ r.now = <<>> /\ r.before = <<>>
              /\ v = row.val /\ t - row.timestamp <= StableDelta
              /\ Continues(g, g.hashed_values[g.head], row, t)
           \/ /\ RowsOf(r, row, s, v, t)
              /\ Continues(g, g.hashed_values[g.head], Point(v, t), t)
    <3>1. CASE h.state = "Normal"
      <4>1. r = AddNormal(h, v, t)
        BY <1>2, <3>1 DEF Add
      <4>2. Continues(h, h.hashed_values[h.head], row, s)
        BY <3>1 DEF InStep
      <4> QED
        BY <2>1, <3>1, <4>1, <4>2, AddNormalFacts
    <3>2. CASE h.state = "InFail"
      <4>1. r = AddAfterNoice(h, v, t)
        BY <1>2, <3>2 DEF Add
      <4> QED
        BY <2>1, <3>2, <4>1, AddAfterNoiceFacts
    <3>3. CASE h.state = "FailReported"
      <4>1. r = CleanFailReport(h, v, t)
        BY <1>2, <3>3 DEF Add
      <4> QED
        BY <2>1, <3>3, <4>1, CleanFailReportFacts
    <3> QED
      BY <3>1, <3>2, <3>3 DEF ValueHasher, HashState
  <2> HIDE DEF r
  <2>3. \A q : Continues(g, g.hashed_values[g.head], q, t) => InStep(g, q, t)
    BY <2>2 DEF InStep
  <2> QED
    BY <1>2, <2>2, <2>3 DEF r
<1> QED
  BY <1>1, <1>2

-----------------------------------------------------------------------------
(* The window and the rows tell one history.                                 *)

\* The first n points of a window, by offset.
WindowOf(n) == [0 .. n - 1 -> HashedValue]

\* What the lemmas conclude, under a name of its own: the provers do not
\* instantiate a lemma that takes and gives the same predicate.
TellsNext(x, m, saved, t) == Tells(x, m, saved, t)

\* x continues w without its first k points, up to offset l.
Follows(x, w, k, l) == \A i \in 0 .. l : x[i] = w[i + k]

\* Forgetting the oldest point, and time.
LEMMA KeptTells ==
  ASSUME NEW n \in Nat \ {0}, NEW m \in Nat \ {0}, NEW k \in {0, 1}, m = n - k,
         NEW w \in WindowOf(n), NEW x \in WindowOf(m),
         Follows(x, w, k, m - 1),
         NEW saved \in SUBSET HashedValue,
         NEW s \in Nat, NEW t \in Nat, s <= t,
         Tells(w, n, saved, s)
  PROVE  TellsNext(x, m, saved, t)
<1>1. /\ \A i \in 0 .. n - 1 : w[i] \in HashedValue /\ w[i].timestamp \in Nat
      /\ \A p \in saved : p.timestamp \in Nat
  BY DEF WindowOf, HashedValue
<1>2. \A i \in 0 .. m - 1 : i + k \in 0 .. n - 1 /\ x[i] = w[i + k]
  BY DEF Follows
<1>3. \A i, j \in 0 .. m - 1 :
        i < j => /\ x[i].timestamp <= x[j].timestamp
                 /\ 0 \notin Steps => x[i].timestamp < x[j].timestamp
  <2> TAKE i, j \in 0 .. m - 1
  <2> HAVE i < j
  <2>1. i + k < j + k
    OBVIOUS
  <2> QED
    BY <1>2, <2>1 DEF Tells
<1>4. \A i \in 0 .. m - 1 : 0 < x[i].timestamp /\ x[i].timestamp <= t
  BY <1>1, <1>2 DEF Tells
<1>5. \A i \in 0 .. m - 1 : x[i].val = Fail => x[i] \in saved
  BY <1>2 DEF Tells
<1>6. \A i \in 0 .. m - 2 : x[i].val # x[i + 1].val => x[i] \in saved
  <2> TAKE i \in 0 .. m - 2
  <2>1. i + k \in 0 .. n - 2 /\ x[i] = w[i + k] /\ x[i + 1] = w[(i + k) + 1]
    <3>1. i \in 0 .. m - 1 /\ i + 1 \in 0 .. m - 1 /\ (i + 1) + k = (i + k) + 1
      OBVIOUS
    <3> QED
      BY <1>2, <3>1
  <2> QED
    BY <2>1 DEF Tells
<1>7. \A p \in saved : p.timestamp <= t
  BY <1>1 DEF Tells
<1>8. ASSUME 0 \notin Steps, NEW p \in saved, x[0].timestamp <= p.timestamp
      PROVE  \E i \in 0 .. m - 1 :
               /\ x[i].val = p.val /\ p.timestamp <= x[i].timestamp
               /\ i > 0 => x[i - 1].timestamp < p.timestamp
  <2>1. x[0] = w[k] /\ 0 \in 0 .. n - 1 /\ k \in 0 .. n - 1
    BY <1>2
  <2>2. w[0].timestamp <= w[k].timestamp /\ (k > 0 => w[0].timestamp < w[k].timestamp)
    BY <1>1, <1>8, <2>1 DEF Tells
  <2>3. w[0].timestamp <= p.timestamp
    BY <1>1, <1>8, <2>1, <2>2
  <2>4. PICK i \in 0 .. n - 1 : /\ w[i].val = p.val /\ p.timestamp <= w[i].timestamp
                                /\ i > 0 => w[i - 1].timestamp < p.timestamp
    BY <1>8, <2>3 DEF Tells
  <2>5. i >= k
    BY <1>1, <1>8, <2>1, <2>2, <2>4
  <2>6. i - k \in 0 .. m - 1 /\ x[i - k] = w[i]
    <3>1. i - k \in 0 .. m - 1 /\ (i - k) + k = i
      BY <2>5
    <3> QED
      BY <1>2, <3>1
  <2>7. i - k > 0 => x[(i - k) - 1] = w[i - 1]
    <3> HAVE i - k > 0
    <3>1. (i - k) - 1 \in 0 .. m - 1 /\ ((i - k) - 1) + k = i - 1
      BY <2>6
    <3> QED
      BY <1>2, <3>1
  <2> QED
    BY <2>4, <2>6, <2>7
<1> QED
  BY <1>3, <1>4, <1>5, <1>6, <1>7, <1>8 DEF Tells, TellsNext

\* The plateau under way goes on.
LEMMA StampedTells ==
  ASSUME NEW n \in Nat \ {0},
         NEW w \in WindowOf(n), NEW x \in WindowOf(n),
         \A i \in 0 .. n - 2 : x[i] = w[i],
         x[n - 1].val = w[n - 1].val, x[n - 1].val # Fail,
         NEW saved \in SUBSET HashedValue,
         NEW s \in Nat, NEW t \in Nat, s <= t, 0 \notin Steps => s < t,
         x[n - 1].timestamp = t,
         Tells(w, n, saved, s)
  PROVE  TellsNext(x, n, saved, t)
<1>1. /\ \A i \in 0 .. n - 1 : w[i] \in HashedValue /\ w[i].timestamp \in Nat
      /\ \A p \in saved : p.timestamp \in Nat
  BY DEF WindowOf, HashedValue
<1>2. \A i \in 0 .. n - 1 : i = n - 1 \/ (i \in 0 .. n - 2 /\ x[i] = w[i])
  OBVIOUS
<1>3. \A i, j \in 0 .. n - 1 :
        i < j => /\ x[i].timestamp <= x[j].timestamp
                 /\ 0 \notin Steps => x[i].timestamp < x[j].timestamp
  <2> TAKE i, j \in 0 .. n - 1
  <2> HAVE i < j
  <2>1. x[i] = w[i]
    BY <1>2
  <2>2. CASE j = n - 1
    BY <1>1, <2>1, <2>2 DEF Tells
  <2>3. CASE j # n - 1
    BY <1>2, <2>1, <2>3 DEF Tells
  <2> QED
    BY <2>2, <2>3
<1>4. \A i \in 0 .. n - 1 : 0 < x[i].timestamp /\ x[i].timestamp <= t
  <2>1. 0 < t
    <3>1. n - 1 \in 0 .. n - 1
      OBVIOUS
    <3> QED
      BY <1>1, <3>1 DEF Tells
  <2> QED
    BY <1>1, <1>2, <2>1 DEF Tells
<1>5. \A i \in 0 .. n - 1 : x[i].val = Fail => x[i] \in saved
  BY <1>2 DEF Tells
<1>6. \A i \in 0 .. n - 2 : x[i].val # x[i + 1].val => x[i] \in saved
  <2> TAKE i \in 0 .. n - 2
  <2>1. x[i] = w[i] /\ x[i + 1].val = w[i + 1].val
    <3>1. i + 1 \in 0 .. n - 1
      OBVIOUS
    <3> QED
      BY <1>2, <3>1
  <2> QED
    BY <2>1 DEF Tells
<1>7. \A p \in saved : p.timestamp <= t
  BY <1>1 DEF Tells
<1>8. ASSUME 0 \notin Steps, NEW p \in saved, x[0].timestamp <= p.timestamp
      PROVE  \E i \in 0 .. n - 1 :
               /\ x[i].val = p.val /\ p.timestamp <= x[i].timestamp
               /\ i > 0 => x[i - 1].timestamp < p.timestamp
  <2>1. n # 1
    BY <1>1, <1>8 DEF Tells
  <2>2. w[0].timestamp <= p.timestamp
    BY <1>2, <1>8, <2>1
  <2>3. PICK i \in 0 .. n - 1 : /\ w[i].val = p.val /\ p.timestamp <= w[i].timestamp
                                /\ i > 0 => w[i - 1].timestamp < p.timestamp
    BY <1>8, <2>2 DEF Tells
  <2>4. i > 0 => x[i - 1] = w[i - 1]
    OBVIOUS
  <2>5. x[i].val = p.val /\ p.timestamp <= x[i].timestamp
    BY <1>1, <1>2, <1>7, <2>3
  <2> QED
    BY <2>3, <2>4, <2>5
<1> QED
  BY <1>3, <1>4, <1>5, <1>6, <1>7, <1>8 DEF Tells, TellsNext

\* A new point, which is saved, with the point before it unless that has its value.
LEMMA GrownTells ==
  ASSUME NEW n \in Nat \ {0}, NEW m \in Nat, m > 1, NEW k \in {0, 1}, m = n + 1 - k,
         NEW w \in WindowOf(n), NEW x \in WindowOf(m),
         Follows(x, w, k, m - 2),
         NEW saved \in SUBSET HashedValue, NEW all,
         saved \subseteq all, x[m - 1] \in all,
         \A p \in all : p \in saved \/ p = w[n - 1] \/ p = x[m - 1],
         w[n - 1].val # x[m - 1].val => w[n - 1] \in all,
         NEW s \in Nat, NEW t \in Nat, s <= t, 0 \notin Steps => s < t,
         x[m - 1].timestamp = t,
         Tells(w, n, saved, s)
  PROVE  TellsNext(x, m, all, t)
<1>1. /\ \A i \in 0 .. n - 1 : w[i] \in HashedValue /\ w[i].timestamp \in Nat
      /\ \A p \in saved : p.timestamp \in Nat
  BY DEF WindowOf, HashedValue
<1>2. /\ \A i \in 0 .. m - 2 : i + k \in 0 .. n - 1 /\ x[i] = w[i + k]
      /\ \A i \in 0 .. m - 1 : i = m - 1 \/ i \in 0 .. m - 2
      /\ (m - 2) + k = n - 1 /\ m - 2 \in 0 .. m - 2 /\ n - 1 \in 0 .. n - 1
  BY DEF Follows
<1>3. \A i, j \in 0 .. m - 1 :
        i < j => /\ x[i].timestamp <= x[j].timestamp
                 /\ 0 \notin Steps => x[i].timestamp < x[j].timestamp
  <2> TAKE i, j \in 0 .. m - 1
  <2> HAVE i < j
  <2>1. x[i] = w[i + k] /\ i + k \in 0 .. n - 1
    BY <1>2
  <2>2. CASE j = m - 1
    BY <1>1, <2>1, <2>2 DEF Tells
  <2>3. CASE j # m - 1
    <3>1. x[j] = w[j + k] /\ j + k \in 0 .. n - 1 /\ i + k < j + k
      BY <1>2, <2>3
    <3> QED
      BY <2>1, <3>1 DEF Tells
  <2> QED
    BY <2>2, <2>3
<1>4. \A i \in 0 .. m - 1 : 0 < x[i].timestamp /\ x[i].timestamp <= t
  <2>1. 0 < t
    BY <1>1, <1>2 DEF Tells
  <2> QED
    BY <1>1, <1>2, <2>1 DEF Tells
<1>5. \A i \in 0 .. m - 1 : x[i].val = Fail => x[i] \in all
  BY <1>2 DEF Tells
<1>6. \A i \in 0 .. m - 2 : x[i].val # x[i + 1].val => x[i] \in all
  <2> TAKE i \in 0 .. m - 2
  <2>1. CASE i = m - 2
    BY <1>2, <2>1
  <2>2. CASE i # m - 2
    <3>1. /\ i + k \in 0 .. n - 2 /\ i + 1 \in 0 .. m - 2 /\ (i + 1) + k = (i + k) + 1
      BY <2>2
    <3>2. x[i] = w[i + k] /\ x[i + 1] = w[(i + k) + 1]
      BY <1>2, <3>1
    <3> QED
      BY <3>1, <3>2 DEF Tells
  <2> QED
    BY <2>1, <2>2
<1>7. \A p \in all : p.timestamp <= t
  BY <1>1, <1>2 DEF Tells
<1>8. ASSUME 0 \notin Steps, NEW p \in all, x[0].timestamp <= p.timestamp
      PROVE  \E i \in 0 .. m - 1 :
               /\ x[i].val = p.val /\ p.timestamp <= x[i].timestamp
               /\ i > 0 => x[i - 1].timestamp < p.timestamp
  <2>1. CASE p = x[m - 1]
    <3>1. m - 1 \in 0 .. m - 1 /\ (m - 1) - 1 \in 0 .. m - 1 /\ (m - 1) - 1 < m - 1
      OBVIOUS
    <3>2. x[(m - 1) - 1].timestamp < x[m - 1].timestamp
      BY <1>3, <1>8, <3>1
    <3> QED
      BY <2>1, <3>1, <3>2
  <2>2. CASE p = w[n - 1]
    <3>1. m - 2 \in 0 .. m - 1 /\ x[m - 2] = p
      BY <1>2, <2>2
    <3>2. m - 2 > 0 => x[(m - 2) - 1].timestamp < x[m - 2].timestamp
      <4> HAVE m - 2 > 0
      <4>1. (m - 2) - 1 \in 0 .. m - 1 /\ (m - 2) - 1 < m - 2
        OBVIOUS
      <4> QED
        BY <1>3, <1>8, <3>1, <4>1
    <3>3. p.timestamp <= x[m - 2].timestamp
      BY <1>1, <1>2, <2>2, <3>1
    <3> QED
      BY <3>1, <3>2, <3>3
  <2>3. CASE p \in saved
    <3>1. x[0] = w[k] /\ 0 \in 0 .. n - 1 /\ k \in 0 .. n - 1
      BY <1>2
    <3>2. w[0].timestamp <= w[k].timestamp /\ (k > 0 => w[0].timestamp < w[k].timestamp)
      BY <1>1, <1>8, <3>1 DEF Tells
    <3>3. w[0].timestamp <= p.timestamp
      BY <1>1, <1>8, <2>3, <3>1, <3>2
    <3>4. PICK i \in 0 .. n - 1 : /\ w[i].val = p.val /\ p.timestamp <= w[i].timestamp
                                  /\ i > 0 => w[i - 1].timestamp < p.timestamp
      BY <1>8, <2>3, <3>3 DEF Tells
    <3>5. i >= k
      BY <1>1, <1>8, <2>3, <3>1, <3>2, <3>4
    <3>6. i - k \in 0 .. m - 2 /\ x[i - k] = w[i]
      <4>1. i - k \in 0 .. m - 2 /\ (i - k) + k = i
        BY <3>5
      <4> QED
        BY <1>2, <4>1
    <3>7. i - k > 0 => x[(i - k) - 1] = w[i - 1]
      <4> HAVE i - k > 0
      <4>1. (i - k) - 1 \in 0 .. m - 2 /\ ((i - k) - 1) + k = i - 1
        BY <3>6
      <4> QED
        BY <1>2, <4>1
    <3>8. i - k \in 0 .. m - 1
      BY <3>6
    <3> QED
      BY <3>4, <3>6, <3>7, <3>8
  <2> QED
    BY <2>1, <2>2, <2>3
<1> QED
  BY <1>3, <1>4, <1>5, <1>6, <1>7, <1>8 DEF Tells, TellsNext

LEMMA ConfirmedPointsType ==
  ASSUME NEW h \in ValueHasher, Geometry(h)
  PROVE  /\ ConfirmedLen(h) \in Nat \ {0}
         /\ ConfirmedPoints(h) \in WindowOf(ConfirmedLen(h))
<1>1. ConfirmedLen(h) \in 1 .. Capacity /\ ConfirmedLen(h) <= WindowLen(h)
  BY ConfirmedLenType, WindowShape, HashUnitAssumption DEF ConfirmedLen
<1>2. \A i \in 0 .. WindowLen(h) - 1 : AtOffset(h, i) \in HashedValue
  BY WindowShape DEF ValueHasher
<1>3. WindowLen(h) \in Nat /\ Capacity \in Nat
  BY WindowShape, HashUnitAssumption
<1>4. \A i \in 0 .. ConfirmedLen(h) - 1 : AtOffset(h, i) \in HashedValue
  BY <1>1, <1>2, <1>3
<1> QED
  BY <1>1, <1>3, <1>4 DEF ConfirmedPoints, WindowOf

\* A list of points as a set.
RowSet(l) == {l[i] : i \in 1 .. Len(l)}

\* One list after the other.
LEMMA JoinedRows ==
  ASSUME NEW a \in Seq(HashedValue), NEW b \in Seq(HashedValue)
  PROVE  /\ a \o b \in Seq(HashedValue)
         /\ RowSet(a \o b) = RowSet(a) \cup RowSet(b)
<1> DEFINE c == a \o b
           m == Len(a)
           n == Len(b)
<1>1. /\ m \in Nat /\ n \in Nat /\ c \in Seq(HashedValue) /\ Len(c) = m + n
      /\ \A i \in 1 .. m + n : c[i] = IF i <= m THEN a[i] ELSE b[i - m]
  OBVIOUS
<1> HIDE DEF c, m, n
<1>2. RowSet(c) \subseteq RowSet(a) \cup RowSet(b)
  <2> SUFFICES ASSUME NEW i \in 1 .. m + n PROVE c[i] \in RowSet(a) \cup RowSet(b)
    BY <1>1 DEF RowSet
  <2>1. i \in 1 .. m \/ (i - m \in 1 .. n /\ i > m)
    BY <1>1
  <2> QED
    BY <1>1, <2>1 DEF RowSet, m, n
<1>3. RowSet(a) \subseteq RowSet(c)
  <2> SUFFICES ASSUME NEW i \in 1 .. m PROVE a[i] \in RowSet(c)
    BY DEF RowSet, m
  <2>1. i \in 1 .. m + n /\ c[i] = a[i]
    BY <1>1
  <2> QED
    BY <1>1, <2>1 DEF RowSet
<1>4. RowSet(b) \subseteq RowSet(c)
  <2> SUFFICES ASSUME NEW i \in 1 .. n PROVE b[i] \in RowSet(c)
    BY DEF RowSet, n
  <2>1. m + i \in 1 .. m + n /\ c[m + i] = b[i]
    <3>1. m + i \in 1 .. m + n /\ ~(m + i <= m) /\ (m + i) - m = i
      BY <1>1
    <3> QED
      BY <1>1, <3>1
  <2> QED
    BY <1>1, <2>1 DEF RowSet
<1> QED
  BY <1>1, <1>2, <1>3, <1>4 DEF c

\* The points a call hands back.
Returned(r) == RowSet(r.before) \cup RowSet(r.now)

\* As TellsNext.
RingTellsNext(h, saved, t) == RingTells(h, saved, t)

\* One call of add: the ring tells the rows, with those it hands back.
LEMMA SampleTells ==
  ASSUME NEW h \in ValueHasher, Geometry(h), NEW rows \in SUBSET HashedValue,
         NEW s \in Nat, NEW t \in Nat, s <= t, 0 \notin Steps => s < t,
         NEW v \in Measures, RingTells(h, rows, s)
  PROVE  /\ RingTellsNext(Add(h, v, t).hasher, rows \cup Returned(Add(h, v, t)), t)
         /\ AtOffset(h, 0).timestamp <= AtOffset(Add(h, v, t).hasher, 0).timestamp
         /\ Returned(Add(h, v, t)) \in SUBSET HashedValue
<1> DEFINE r == Add(h, v, t)
           g == r.hasher
           n == ConfirmedLen(h)
           m == ConfirmedLen(g)
           w == ConfirmedPoints(h)
           x == ConfirmedPoints(g)
           last == LastConfirmed(h)
           q == Point(v, t)
           all == rows \cup Returned(r)
<1> SUFFICES /\ RingTellsNext(g, all, t)
             /\ AtOffset(h, 0).timestamp <= AtOffset(g, 0).timestamp
             /\ Returned(r) \in SUBSET HashedValue
  OBVIOUS
<1>1. PICK row \in rows : InStep(h, row, s)
  BY DEF RingTells
<1>2. row \in HashedValue
  BY <1>1
<1>3. q \in HashedValue /\ q.val = v /\ q.timestamp = t
  BY PointType
<1>4. g \in ValueHasher /\ Geometry(g)
  BY AddType DEF WellFormed
<1>5. Outcome(h, r, v, t)
  <2>1. h.state = "InFail" => h.hashed_values[h.head].val = Fail
    BY <1>1 DEF InStep
  <2> QED
    BY <2>1, AddOutcome
<1>6. /\ v # Fail => g.state = "Normal"
      /\ \/ /\ r.now = <<>> /\ r.before = <<>>
            /\ InStep(g, row, t)
            /\ g.state = "FailReported" => h.state = "FailReported"
         \/ /\ RowsOf(r, row, s, v, t)
            /\ InStep(g, q, t)
  BY <1>1, <1>2, AddFacts
<1> HIDE DEF r
<1>7. RowsOf(r, row, s, v, t) => r.now # <<>>
  BY DEF RowsOf
<1>8. /\ n \in Nat \ {0} /\ m \in Nat \ {0} /\ w \in WindowOf(n) /\ x \in WindowOf(m)
      /\ \A i \in 0 .. n - 1 : w[i] = AtOffset(h, i)
      /\ \A i \in 0 .. m - 1 : x[i] = AtOffset(g, i)
  BY <1>4, ConfirmedPointsType DEF ConfirmedPoints
<1>9. last = w[n - 1] /\ LastConfirmed(g) = x[m - 1]
  BY <1>8 DEF LastConfirmed
<1>10. /\ last \in HashedValue
       /\ last = h.hashed_values[IF h.state = "InFail" THEN SlotBefore(h.head) ELSE h.head]
       /\ h.state \in HashState
  BY <1>8, <1>9, ConfirmedLenType DEF WindowOf, ValueHasher
<1>11. Tells(w, n, rows, s) /\ (h.state = "FailReported" => last.val = Fail)
  BY DEF RingTells
<1>12. AtOffset(h, 0) = w[0] /\ AtOffset(g, 0) = x[0] /\ 0 \in 0 .. n - 1 /\ 0 \in 0 .. m - 1
  BY <1>8
<1> HIDE DEF n, m, w, x, last, g, q
<1>13. /\ \A i \in 0 .. n - 1 : w[i] \in HashedValue /\ w[i].timestamp \in Nat /\ w[i].timestamp <= s
       /\ \A i \in 0 .. n - 1 : w[0].timestamp <= w[i].timestamp
  <2>1. \A i \in 0 .. n - 1 : w[i] \in HashedValue /\ w[i].timestamp \in Nat
    BY <1>8 DEF WindowOf, HashedValue
  <2>2. \A i \in 0 .. n - 1 : w[i].timestamp <= s
    BY <1>11 DEF Tells
  <2>3. \A i \in 0 .. n - 1 : i = 0 \/ (0 < i /\ 0 \in 0 .. n - 1)
    BY <1>8
  <2>4. \A i \in 0 .. n - 1 : w[0].timestamp <= w[i].timestamp
    BY <1>11, <1>12, <2>1, <2>3 DEF Tells
  <2> QED
    BY <2>1, <2>2, <2>4
<1>14. h.is_resolving_duplicate \/ h.state = "FailReported" \/ last = row
  <2> SUFFICES ASSUME ~h.is_resolving_duplicate, h.state # "FailReported"
               PROVE  last = row
    OBVIOUS
  <2>1. Continues(h, last, row, s)
    BY <1>1, <1>10 DEF InStep, HashState
  <2> QED
    BY <1>2, <1>10, <2>1, SMTT(30) DEF Continues, HashedValue
<1>15. RowSet(<<>>) = {} /\ \A p : RowSet(<<p>>) = {p}
  BY DEF RowSet
<1>16. CASE r.now = <<>> /\ r.before = <<>>
  <2>1. all = rows /\ Returned(r) = {}
    BY <1>15, <1>16 DEF Returned
  <2>2. InStep(g, row, t) /\ (g.state = "FailReported" => h.state = "FailReported")
    BY <1>6, <1>7, <1>16
  <2>3. SUFFICES /\ TellsNext(x, m, rows, t)
                 /\ g.state = "FailReported" => x[m - 1].val = Fail
                 /\ w[0].timestamp <= x[0].timestamp
    BY <1>1, <1>9, <1>12, <2>1, <2>2 DEF RingTellsNext, RingTells, TellsNext, x, m
  <2>4. CASE v = Fail /\ Kept(h, g)
    <3>1. PICK k \in {0, 1} : m = n - k /\ \A i \in 0 .. m - 1 : x[i] = w[i + k]
      <4>1. PICK k \in {0, 1} :
              m = n - k /\ \A i \in 0 .. m - 1 : AtOffset(g, i) = AtOffset(h, i + k)
        BY <2>4 DEF Kept, n, m
      <4>2. \A i \in 0 .. m - 1 : i + k \in 0 .. n - 1
        BY <1>8, <4>1
      <4> QED
        BY <1>8, <4>1, <4>2
    <3>2. TellsNext(x, m, rows, t)
      <4>1. Follows(x, w, k, m - 1)
        BY <3>1 DEF Follows
      <4> QED
        BY <1>8, <1>11, <3>1, <4>1, KeptTells
    <3>3. x[m - 1] = w[n - 1] /\ x[0] = w[k] /\ k \in 0 .. n - 1
      BY <1>8, <1>12, <3>1
    <3> QED
      BY <1>9, <1>11, <1>13, <2>2, <3>2, <3>3
  <2>5. CASE v # Fail /\ v = last.val /\ Stamped(h, g, q)
    <3>1. m = n /\ x[n - 1] = q /\ \A i \in 0 .. n - 2 : x[i] = w[i]
      BY <1>8, <1>9, <2>5 DEF Stamped, n, m
    <3>2. TellsNext(x, n, rows, t)
      BY <1>3, <1>8, <1>9, <1>11, <2>5, <3>1, StampedTells
    <3>3. w[0].timestamp <= x[0].timestamp
      <4>1. CASE n = 1
        BY <1>3, <1>12, <1>13, <3>1, <4>1
      <4>2. CASE n # 1
        <5>1. 0 \in 0 .. n - 2
          BY <1>8, <4>2
        <5> QED
          BY <1>12, <1>13, <3>1, <5>1
      <4> QED
        BY <4>1, <4>2
    <3>4. g.state # "FailReported"
      BY <1>6, <2>5
    <3> QED
      BY <3>1, <3>2, <3>3, <3>4
  <2> QED
    BY <1>5, <1>16, <2>4, <2>5 DEF Outcome, last, g, q
<1>17. CASE /\ r.now = <<q>>
            /\ r.before \in {<<>>, <<last>>}
            /\ (h.is_resolving_duplicate /\ last.val # v
                  /\ h.state # "FailReported") => r.before = <<last>>
            /\ Grown(h, g, q)
  <2>1. /\ rows \subseteq all /\ q \in all /\ all \in SUBSET HashedValue
        /\ \A p \in all : p \in rows \/ p = last \/ p = q
        /\ r.before # <<>> => last \in all
        /\ Returned(r) \in SUBSET HashedValue
    <3>1. Returned(r) \in {{q}, {last, q}} /\ (r.before # <<>> => Returned(r) = {last, q})
      BY <1>15, <1>17 DEF Returned
    <3> QED
      BY <1>3, <1>10, <3>1
  <2>2. /\ m > 1 /\ x[m - 1] = q
        /\ \E k \in {0, 1} : m = n + 1 - k /\ \A i \in 0 .. m - 2 : x[i] = w[i + k]
    <3>1. PICK k \in {0, 1} :
            /\ m = n + 1 - k
            /\ \A i \in 0 .. m - 2 : AtOffset(g, i) = AtOffset(h, i + k)
      BY <1>17 DEF Grown, n, m
    <3>2. \A i \in 0 .. m - 2 : i \in 0 .. m - 1 /\ i + k \in 0 .. n - 1
      BY <1>8, <3>1
    <3>3. \A i \in 0 .. m - 2 : x[i] = w[i + k]
      BY <1>8, <3>1, <3>2
    <3> QED
      BY <1>9, <1>17, <3>1, <3>3 DEF Grown, m
  <2>3. PICK k \in {0, 1} : m = n + 1 - k /\ \A i \in 0 .. m - 2 : x[i] = w[i + k]
    BY <2>2
  <2> HIDE DEF all
  <2>4. last.val # v => last \in all
    <3> SUFFICES ASSUME last.val # v, r.before = <<>> PROVE last \in rows
      BY <2>1
    <3>1. last = row \/ h.state = "FailReported"
      BY <1>14, <1>17
    <3>2. (h.state = "FailReported" /\ n - 1 \in 0 .. n - 1) => last \in rows
      BY <1>9, <1>11 DEF Tells
    <3> QED
      BY <1>1, <1>8, <3>1, <3>2
  <2>5. x[m - 1].timestamp = t /\ x[m - 1].val = v /\ m \in Nat
    BY <1>3, <1>8, <2>2
  <2>6. /\ rows \subseteq all /\ x[m - 1] \in all
        /\ \A p \in all : p \in rows \/ p = w[n - 1] \/ p = x[m - 1]
        /\ w[n - 1].val # x[m - 1].val => w[n - 1] \in all
    BY <1>9, <2>1, <2>2, <2>4, <2>5
  <2>7. TellsNext(x, m, all, t)
    <3>1. Follows(x, w, k, m - 2)
      BY <2>3 DEF Follows
    <3> QED
      BY <1>8, <1>11, <2>1, <2>2, <2>3, <2>5, <2>6, <3>1, GrownTells, SMTT(30)
  <2>8. g.state = "FailReported" => x[m - 1].val = Fail
    BY <1>6, <2>5
  <2>9. w[0].timestamp <= x[0].timestamp
    <3>1. 0 \in 0 .. m - 2 /\ k \in 0 .. n - 1
      BY <1>8, <2>2, <2>3
    <3>2. x[0] = w[k]
      BY <2>3, <3>1
    <3> QED
      BY <1>13, <3>1, <3>2
  <2>10. InStep(g, q, t)
    BY <1>6, <1>17
  <2> QED
    BY <1>9, <1>12, <2>1, <2>7, <2>8, <2>9, <2>10
       DEF RingTellsNext, RingTells, TellsNext, x, m
<1> QED
  BY <1>5, <1>16, <1>17 DEF Outcome, last, g, q, r

\* A new ring tells its first point.
LEMMA NewTells ==
  ASSUME NEW v \in Measures, NEW t \in Nat \ {0}
  PROVE  /\ RingTells(NewHasher(v, t), {Point(v, t)}, t)
         /\ CurrentVal(NewHasher(v, t)).hasher = NewHasher(v, t)
         /\ Returned(CurrentVal(NewHasher(v, t))) = {Point(v, t)}
         /\ AtOffset(NewHasher(v, t), 0) = Point(v, t)
<1> DEFINE h == NewHasher(v, t)
           p == Point(v, t)
           w == ConfirmedPoints(h)
<1>1. /\ p \in HashedValue /\ p.timestamp = t /\ p.val = v
      /\ Capacity \in Nat /\ Capacity > 1
  BY PointType, HashUnitAssumption
<1>2. /\ h.head = 0 /\ h.tail = 0 /\ h.state = "Normal" /\ h.last_emitted_ts = t
      /\ ~h.ring_finished /\ ~h.is_resolving_duplicate
      /\ h.hashed_values[0] = p
  BY <1>1 DEF NewHasher, Slots
<1>3. h \in ValueHasher /\ Geometry(h)
  BY NewHasherType DEF WellFormed, CurrentVal
<1>4. ConfirmedLen(h) = 1
  BY <1>2, <1>3, WindowShape DEF ConfirmedLen
<1>5. w \in WindowOf(1) /\ w[0] = LastConfirmed(h) /\ w[0] = p
  <2>1. w \in WindowOf(1)
    BY <1>3, <1>4, ConfirmedPointsType
  <2>2. LastConfirmed(h) = h.hashed_values[0]
    BY <1>2, <1>3, ConfirmedLenType
  <2>3. 0 \in 0 .. ConfirmedLen(h) - 1 /\ ConfirmedLen(h) - 1 = 0
    BY <1>4
  <2>4. w[0] = LastConfirmed(h)
    BY <2>3 DEF ConfirmedPoints, LastConfirmed
  <2> QED
    BY <1>2, <2>1, <2>2, <2>4
<1>6. Returned(CurrentVal(h)) = {p} /\ CurrentVal(h).hasher = h
  BY <1>2 DEF CurrentVal, Returned, RowSet
<1>7. InStep(h, p, t)
  BY <1>1, <1>2 DEF InStep, Continues
<1> HIDE DEF p, w, h
<1>8. Tells(w, 1, {p}, t)
  <2>1. \A i, j \in 0 .. 1 - 1 : i = 0 /\ j = 0
    OBVIOUS
  <2>2. \A i \in 0 .. 1 - 2 : FALSE
    OBVIOUS
  <2> QED
    BY <1>1, <1>5, <2>1, <2>2 DEF Tells
<1>9. RingTells(h, {p}, t)
  BY <1>2, <1>4, <1>7, <1>8 DEF RingTells, w
<1>10. AtOffset(h, 0) = p
  <2>1. 0 \in 0 .. ConfirmedLen(h) - 1
    BY <1>4
  <2> QED
    BY <1>5, <2>1 DEF ConfirmedPoints, w
<1> QED
  BY <1>6, <1>9, <1>10 DEF h, p

\* Time passes without a sample.
LEMMA LaterTells ==
  ASSUME NEW h \in ValueHasher, Geometry(h), NEW rows \in SUBSET HashedValue,
         NEW s \in Nat, NEW t \in Nat, s <= t, RingTells(h, rows, s)
  PROVE  RingTellsNext(h, rows, t)
<1> DEFINE n == ConfirmedLen(h)
           w == ConfirmedPoints(h)
<1>1. n \in Nat \ {0} /\ w \in WindowOf(n)
  BY ConfirmedPointsType
<1>2. Tells(w, n, rows, s)
  BY DEF RingTells
<1>3. PICK row \in rows : InStep(h, row, s)
  BY DEF RingTells
<1>4. h.head \in Slots /\ h.state \in HashState
      /\ \A i \in Slots : h.hashed_values[i].timestamp \in Nat
  BY DEF ValueHasher, HashedValue
<1>5. InStep(h, row, t)
  <2>1. SlotBefore(h.head) \in Slots /\ row.timestamp \in Nat
    BY <1>4, SlotNeighbours DEF HashedValue
  <2>2. ASSUME NEW p \in HashedValue, Continues(h, p, row, s)
        PROVE  Continues(h, p, row, t)
    BY <2>2 DEF Continues, HashedValue
  <2>3. CASE h.state = "Normal"
    BY <1>3, <1>4, <2>2, <2>3 DEF InStep, ValueHasher
  <2>4. CASE h.state = "InFail"
    <3>1. h.hashed_values[SlotBefore(h.head)] \in HashedValue
      BY <2>1 DEF ValueHasher
    <3>2. h.hashed_values[h.head].timestamp <= t
      BY <1>3, <1>4, <2>4 DEF InStep
    <3> QED
      BY <1>3, <2>2, <2>4, <3>1, <3>2 DEF InStep
  <2>5. CASE h.state = "FailReported"
    BY <1>3, <2>1, <2>5 DEF InStep
  <2> QED
    BY <1>4, <2>3, <2>4, <2>5 DEF HashState
<1> HIDE DEF n, w
<1>6. TellsNext(w, n, rows, t)
  <2>1. Follows(w, w, 0, n - 1) /\ n = n - 0
    BY <1>1 DEF Follows
  <2> QED
    BY <1>1, <1>2, <2>1, KeptTells
<1> QED
  BY <1>5, <1>6 DEF RingTellsNext, RingTells, TellsNext, n, w

\* The window a query sees, with the slot of a failure that is not yet reported.
LEMMA WindowSorted ==
  ASSUME NEW h \in ValueHasher, Geometry(h), NEW rows \in SUBSET HashedValue,
         NEW s \in Nat, RingTells(h, rows, s)
  PROVE  /\ \A i \in 0 .. WindowLen(h) - 1 : AtOffset(h, i).timestamp > 0
         /\ \A i, j \in 0 .. WindowLen(h) - 1 :
              i < j => AtOffset(h, i).timestamp <= AtOffset(h, j).timestamp
<1> DEFINE n == WindowLen(h)
           m == ConfirmedLen(h)
           ts(i) == AtOffset(h, i).timestamp
<1>1. \E row \in rows : InStep(h, row, s)
  BY DEF RingTells
<1>2. /\ n \in 1 .. Capacity /\ Capacity \in Nat
      /\ SlotAt(h, n - 1) = h.head
      /\ n > 1 => SlotAt(h, n - 2) = SlotBefore(h.head)
      /\ \A j \in 0 .. n - 1 :
           AtOffset(h, j) = h.hashed_values[SlotAt(h, j)]
      /\ \A j \in 0 .. n - 1 : AtOffset(h, j) \in HashedValue
  BY <1>1, WindowShape, HashUnitAssumption DEF ValueHasher
<1>3. m \in 1 .. Capacity /\ m = IF h.state = "InFail" THEN n - 1 ELSE n
  BY <1>1, ConfirmedLenType DEF ConfirmedLen
<1>4. \A i \in 0 .. m - 1 : ConfirmedPoints(h)[i] = AtOffset(h, i)
  BY DEF ConfirmedPoints
<1>5. /\ \A i \in 0 .. m - 1 : ts(i) > 0
      /\ \A i, j \in 0 .. m - 1 : i < j => ts(i) <= ts(j)
  BY <1>4 DEF RingTells, Tells
<1>6. CASE h.state = "InFail"
  <2>1. m = n - 1 /\ n > 1 /\ n - 2 \in 0 .. m - 1 /\ n - 1 \in 0 .. n - 1 /\ n - 2 \in 0 .. n - 1
    BY <1>2, <1>3, <1>6
  <2>2. ts(n - 2) <= ts(n - 1)
    BY <1>1, <1>2, <1>6, <2>1 DEF InStep
  <2>3. \A i \in 0 .. n - 1 : ts(i) \in Nat
    BY <1>2 DEF HashedValue
  <2> HIDE DEF ts, n, m
  <2>4. \A i \in 0 .. n - 1 : i \in 0 .. m - 1 \/ i = n - 1
    BY <1>2, <2>1
  <2>5. \A i \in 0 .. m - 1 : i \in 0 .. n - 1 /\ ts(i) <= ts(n - 2)
    <3> SUFFICES ASSUME NEW i \in 0 .. m - 1 PROVE i \in 0 .. n - 1 /\ ts(i) <= ts(n - 2)
      OBVIOUS
    <3>1. i \in 0 .. n - 1 /\ (i = n - 2 \/ i < n - 2)
      BY <1>2, <2>1
    <3> QED
      BY <1>5, <2>1, <2>3, <3>1
  <2>6. \A i \in 0 .. n - 1 : ts(i) > 0
    BY <1>5, <2>1, <2>2, <2>3, <2>4
  <2>7. ASSUME NEW i \in 0 .. n - 1, NEW j \in 0 .. n - 1, i < j
        PROVE  ts(i) <= ts(j)
    <3>1. CASE j = n - 1
      <4>1. i \in 0 .. m - 1
        BY <1>2, <2>4, <2>7, <3>1
      <4> QED
        BY <2>1, <2>2, <2>3, <2>5, <3>1, <4>1
    <3>2. CASE j # n - 1
      <4>1. i \in 0 .. m - 1 /\ j \in 0 .. m - 1
        BY <1>2, <2>4, <2>7, <3>2
      <4> QED
        BY <1>5, <2>7, <4>1
    <3> QED
      BY <3>1, <3>2
  <2> QED
    BY <2>6, <2>7 DEF ts, n
<1>7. CASE h.state # "InFail"
  BY <1>3, <1>5, <1>7
<1> QED
  BY <1>6, <1>7

\* What a query of the half-open interval returns, for bounds b and e of the search.
LEMMA QueryOf ==
  ASSUME NEW h \in ValueHasher, Geometry(h), NEW rows \in SUBSET HashedValue,
         NEW s \in Nat, RingTells(h, rows, s), NEW from \in Nat, NEW to \in Nat
  PROVE  LET n == WindowLen(h)
             ts(i) == AtOffset(h, i).timestamp
             inside(i) == from <= ts(i) /\ ts(i) < to
             answer == GetHashed(h, from, to)
         IN  IF \/ from < ts(0)
                \/ n = 1 /\ ~h.ring_finished
                \/ \A i \in 0 .. n - 1 : ~inside(i)
               THEN answer = <<>>
               ELSE \E b, e \in 0 .. n :
                      /\ b < e
                      /\ \A i \in 0 .. n - 1 : inside(i) <=> i \in b .. e - 1
                      /\ answer = <<Cut(h, b, e)>>
<1> DEFINE n == WindowLen(h)
           ts(i) == AtOffset(h, i).timestamp
           inside(i) == from <= ts(i) /\ ts(i) < to
           answer == GetHashed(h, from, to)
<1>1. n \in 1 .. Capacity /\ Capacity \in Nat
  BY WindowShape, HashUnitAssumption
<1>2. /\ \A i \in 0 .. n - 1 : AtOffset(h, i) \in HashedValue /\ ts(i) \in Nat /\ ts(i) > 0
      /\ \A i, j \in 0 .. n - 1 : i < j => ts(i) <= ts(j)
  BY <1>1, WindowShape, WindowSorted DEF ValueHasher, HashedValue
<1>3. /\ ts(0) = h.hashed_values[h.tail].timestamp
      /\ (h.head = h.tail /\ ~h.ring_finished) <=> (n = 1 /\ ~h.ring_finished)
  <2>1. 0 \in 0 .. n - 1 /\ SlotAt(h, 0) = h.tail
    BY <1>1, HashUnitAssumption DEF SlotAt, ValueHasher, Slots
  <2>2. AtOffset(h, 0) = h.hashed_values[h.tail]
    BY <1>1, <2>1, WindowShape
  <2>3. ~h.ring_finished => n = h.head + 1 /\ h.tail = 0
    BY <1>1, WindowShape DEF Geometry
  <2>4. h.head \in Nat
    BY <1>1 DEF ValueHasher, Slots
  <2> QED
    BY <2>2, <2>3, <2>4
<1>4. PICK b : IsLowerBound(h, from, b)
  BY <1>1, <1>2, BoundExists
<1>5. PICK e : IsLowerBound(h, to, e)
  BY <1>1, <1>2, BoundExists
<1>6. LowerBoundRing(h, from) = b /\ LowerBoundRing(h, to) = e
  BY <1>1, <1>4, <1>5, SearchFinds
<1>7. answer = IF \/ from >= to
                  \/ h.head = h.tail /\ ~h.ring_finished
                  \/ from < h.hashed_values[h.tail].timestamp
                  \/ b = e
                 THEN <<>>
                 ELSE <<PointsBetween(h, b, e)>>
  BY <1>6 DEF GetHashed
<1>8. /\ b \in 0 .. n /\ e \in 0 .. n
      /\ \A i \in 0 .. b - 1 : ts(i) < from
      /\ \A i \in b .. n - 1 : ~(ts(i) < from)
      /\ \A i \in 0 .. e - 1 : ts(i) < to
      /\ \A i \in e .. n - 1 : ~(ts(i) < to)
  BY <1>4, <1>5 DEF IsLowerBound
<1> HIDE DEF n, ts, answer
<1>9. from < to => b <= e
  <2> SUFFICES ASSUME from < to, e < b PROVE FALSE
    BY <1>1, <1>8
  <2>1. e \in 0 .. b - 1 /\ e \in e .. n - 1 /\ e \in 0 .. n - 1
    BY <1>1, <1>8
  <2> QED
    BY <1>2, <1>8, <2>1
<1>10. ASSUME NEW i \in 0 .. n - 1, from < to
       PROVE  inside(i) <=> i \in b .. e - 1
  <2>1. /\ i \in 0 .. b - 1 \/ i \in b .. n - 1
        /\ i \in 0 .. e - 1 \/ i \in e .. n - 1
    BY <1>1, <1>8
  <2>2. from <= ts(i) <=> i \in b .. n - 1
    BY <1>1, <1>2, <1>8, <2>1
  <2>3. ts(i) < to <=> i \in 0 .. e - 1
    BY <1>1, <1>2, <1>8, <2>1
  <2>4. (i \in b .. n - 1 /\ i \in 0 .. e - 1) <=> i \in b .. e - 1
    BY <1>1, <1>8
  <2> QED
    BY <2>2, <2>3, <2>4
<1>11. CASE \/ from >= to
            \/ from < ts(0)
            \/ n = 1 /\ ~h.ring_finished
            \/ b = e
  <2>1. answer = <<>>
    BY <1>3, <1>7, <1>11
  <2>2. from >= to => \A i \in 0 .. n - 1 : ~inside(i)
    BY <1>2
  <2>3. (from < to /\ b = e) => \A i \in 0 .. n - 1 : ~inside(i)
    <3> SUFFICES ASSUME from < to, b = e, NEW i \in 0 .. n - 1, inside(i) PROVE FALSE
      OBVIOUS
    <3>1. i \in b .. e - 1
      BY <1>10
    <3> QED
      BY <1>8, <3>1
  <2>4. \/ from < ts(0)
        \/ n = 1 /\ ~h.ring_finished
        \/ \A i \in 0 .. n - 1 : ~inside(i)
    BY <1>11, <2>2, <2>3
  <2> QED
    BY <2>1, <2>4 DEF n, ts, answer
<1>12. CASE /\ from < to
            /\ ~(from < ts(0))
            /\ ~(n = 1 /\ ~h.ring_finished)
            /\ b # e
  <2>1. answer = <<PointsBetween(h, b, e)>>
    BY <1>3, <1>7, <1>12
  <2>2. b < e /\ b \in Nat /\ e \in Nat
    BY <1>8, <1>9, <1>12
  <2>3. \A k \in b .. e - 1 : AtOffset(h, k) \in HashedValue /\ AtOffset(h, k).timestamp # 0
    <3> SUFFICES ASSUME NEW k \in b .. e - 1
                 PROVE  AtOffset(h, k) \in HashedValue /\ AtOffset(h, k).timestamp # 0
      OBVIOUS
    <3>1. k \in 0 .. n - 1
      BY <1>1, <1>8
    <3>2. ts(k) > 0 /\ AtOffset(h, k) \in HashedValue
      BY <1>2, <3>1
    <3> QED
      BY <3>2 DEF ts
  <2>4. PointsBetween(h, b, e) = Cut(h, b, e)
    BY <2>2, <2>3, CopyIsCut
  <2>5. ~ \A i \in 0 .. n - 1 : ~inside(i)
    <3>1. b \in 0 .. n - 1 /\ b \in b .. e - 1
      BY <1>1, <1>8, <2>2
    <3> QED
      BY <1>10, <1>12, <3>1
  <2>6. \A i \in 0 .. n - 1 : inside(i) <=> i \in b .. e - 1
    BY <1>10, <1>12
  <2>7. answer = <<Cut(h, b, e)>>
    BY <2>1, <2>4
  <2> QED
    BY <1>8, <1>12, <2>2, <2>5, <2>6, <2>7 DEF n, ts, answer
<1> QED
  BY <1>11, <1>12
=============================================================================
