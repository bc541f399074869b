------------------------- MODULE MeasureMasterProofs -------------------------
(***************************************************************************)
(* Theorems about MeasureMaster for every set of tags, every ring, every   *)
(* batch size and any number of faults, deletions and restarts.            *)
(***************************************************************************)
EXTENDS MeasureMaster, HashUnitProofs, TLAPS

-----------------------------------------------------------------------------
(* What the moves of rows do to the sets of rows.                            *)

LEMMA ElementsAppend ==
  ASSUME NEW s \in Seq(Rows), NEW x \in Rows
  PROVE  /\ Append(s, x) \in Seq(Rows)
         /\ Len(Append(s, x)) = Len(s) + 1
         /\ Elements(Append(s, x)) = Elements(s) \cup {x}
<1> DEFINE l == Append(s, x)
<1>1. /\ l \in Seq(Rows) /\ Len(l) = Len(s) + 1
      /\ DOMAIN l = 1 .. Len(s) + 1 /\ DOMAIN s = 1 .. Len(s) /\ Len(s) \in Nat
      /\ l[Len(s) + 1] = x
      /\ \A i \in DOMAIN s : l[i] = s[i]
  OBVIOUS
<1> HIDE DEF l
<1>2. DOMAIN l = DOMAIN s \cup {Len(s) + 1}
  BY <1>1
<1>3. Elements(l) = Elements(s) \cup {x}
  BY <1>1, <1>2 DEF Elements
<1> QED
  BY <1>1, <1>3 DEF l

\* What add hands back, before first.
LEMMA ShortPair ==
  ASSUME NEW S, NEW a \in Seq(S), NEW b \in Seq(S), Len(a) <= 1, Len(b) <= 1
  PROVE  a \o b \in Seq(S) /\ Len(a \o b) <= 2
<1>1. /\ a \o b \in Seq(S) /\ Len(a \o b) = Len(a) + Len(b)
      /\ Len(a) \in Nat /\ Len(b) \in Nat
  OBVIOUS
<1> QED
  BY <1>1

\* INSERT: the table has its rows and those of the buffer, under fresh ids.
LEMMA InsertFacts ==
  ASSUME next_id \in Nat \ {0}, DOMAIN measures \subseteq 1 .. next_id - 1,
         Elements(measures) \subseteq Rows, first_id \in 1 .. next_id,
         buff \in Seq(Rows), Insert
  PROVE  /\ Elements(measures') = Elements(measures) \cup Elements(buff)
         /\ next_id' \in Nat \ {0} /\ first_id' \in 1 .. next_id'
         /\ DOMAIN measures' \subseteq 1 .. next_id' - 1
<1> DEFINE new == next_id .. next_id + Len(buff) - 1
<1>1. Len(buff) \in Nat /\ DOMAIN buff = 1 .. Len(buff)
  OBVIOUS
<1>2. /\ DOMAIN measures' = DOMAIN measures \cup new
      /\ \A n \in DOMAIN measures : measures'[n] = measures[n]
      /\ \A n \in new : measures'[n] = buff[n - next_id + 1]
  BY DEF Insert
<1>3. \A n \in new : n - next_id + 1 \in DOMAIN buff
  BY <1>1
<1>4. \A i \in DOMAIN buff : next_id + i - 1 \in new /\ (next_id + i - 1) - next_id + 1 = i
  BY <1>1
<1>5. next_id' = next_id + Len(buff) /\ first_id' = first_id
  BY DEF Insert
<1>6. /\ next_id' \in Nat \ {0} /\ first_id' \in 1 .. next_id'
      /\ DOMAIN measures' \subseteq 1 .. next_id' - 1
  BY <1>1, <1>2, <1>5
<1>7. Elements(measures') \subseteq Elements(measures) \cup Elements(buff)
  BY <1>2, <1>3 DEF Elements
<1>8. Elements(buff) \subseteq Elements(measures')
  <2> SUFFICES ASSUME NEW i \in DOMAIN buff
               PROVE  buff[i] \in Elements(measures')
    BY DEF Elements
  <2> DEFINE n == next_id + i - 1
  <2>1. n \in DOMAIN measures' /\ measures'[n] = buff[i]
    BY <1>2, <1>4
  <2> QED
    BY <2>1 DEF Elements
<1>9. Elements(measures) \subseteq Elements(measures')
  BY <1>2 DEF Elements
<1> QED
  BY <1>6, <1>7, <1>8, <1>9

\* The counts of what went wrong, action by action.
LEMMA FaultCounts ==
  ASSUME NEW f \in Faults
  PROVE  /\ [f EXCEPT !.kept = FALSE] \in Faults
         /\ [f EXCEPT !.kept = TRUE] \in Faults /\ [f EXCEPT !.kept = TRUE].kept = TRUE
         /\ f.failed < MaxFaults =>
              LET g == [f EXCEPT !.failed = @ + 1, !.kept = TRUE]
              IN  g \in Faults /\ g.kept = TRUE
         /\ f.late < MaxLate =>
              LET g == [f EXCEPT !.late = @ + 1, !.kept = TRUE]
              IN  g \in Faults /\ g.kept = TRUE
         /\ f.crashes < MaxCrashes =>
              LET g == [f EXCEPT !.crashes = @ + 1, !.kept = FALSE]
              IN  g \in Faults /\ g.crashes = f.crashes + 1
<1>1. /\ f.failed \in 0 .. MaxFaults /\ f.late \in 0 .. MaxLate /\ f.crashes \in 0 .. MaxCrashes
      /\ MaxFaults \in Nat /\ MaxLate \in Nat /\ MaxCrashes \in Nat
  BY MeasureMasterAssumption DEF Faults
<1>2. \A g \in Faults : /\ [g EXCEPT !.kept = FALSE] \in Faults
                        /\ [g EXCEPT !.kept = FALSE].crashes = g.crashes
                        /\ [g EXCEPT !.kept = TRUE] \in Faults
                        /\ [g EXCEPT !.kept = TRUE].kept = TRUE
  BY DEF Faults
<1>3. f.failed < MaxFaults => [f EXCEPT !.failed = @ + 1] \in Faults
  BY <1>1 DEF Faults
<1>4. f.late < MaxLate => [f EXCEPT !.late = @ + 1] \in Faults
  BY <1>1 DEF Faults
<1>5. f.crashes < MaxCrashes =>
        [f EXCEPT !.crashes = @ + 1] \in Faults /\ [f EXCEPT !.crashes = @ + 1].crashes = f.crashes + 1
  BY <1>1 DEF Faults
<1>6. /\ [f EXCEPT !.failed = @ + 1, !.kept = TRUE] = [[f EXCEPT !.failed = @ + 1] EXCEPT !.kept = TRUE]
      /\ [f EXCEPT !.late = @ + 1, !.kept = TRUE] = [[f EXCEPT !.late = @ + 1] EXCEPT !.kept = TRUE]
      /\ [f EXCEPT !.crashes = @ + 1, !.kept = FALSE] = [[f EXCEPT !.crashes = @ + 1] EXCEPT !.kept = FALSE]
  OBVIOUS
<1>7. f.failed < MaxFaults =>
        LET g == [f EXCEPT !.failed = @ + 1, !.kept = TRUE] IN g \in Faults /\ g.kept = TRUE
  BY <1>2, <1>3, <1>6
<1>8. f.late < MaxLate =>
        LET g == [f EXCEPT !.late = @ + 1, !.kept = TRUE] IN g \in Faults /\ g.kept = TRUE
  BY <1>2, <1>4, <1>6
<1>9. f.crashes < MaxCrashes =>
        LET g == [f EXCEPT !.crashes = @ + 1, !.kept = FALSE]
        IN  g \in Faults /\ g.crashes = f.crashes + 1
  BY <1>2, <1>5, <1>6
<1> QED
  BY <1>2, <1>7, <1>8, <1>9

-----------------------------------------------------------------------------
(* The inductive invariant.                                                  *)

LEMMA InitIndInv == Init => IndInv
<1> SUFFICES ASSUME Init PROVE IndInv
  OBVIOUS
<1>1. Elements(buff) = {} /\ Elements(saved) = {} /\ Elements(measures) = {} /\ Len(buff) = 0
  BY DEF Init, Elements, NoRows
<1>2. TypeOK
  <2>1. /\ <<>> \in Seq(Rows) /\ <<>> \in Seq(Tags) /\ <<>> \in Seq(HashedValue)
        /\ Len(<<>>) = 0
    OBVIOUS
  <2>2. faults \in Faults /\ now \in 1 .. MaxTime /\ read_at \in [Tags -> 0 .. now]
    BY MeasureMasterAssumption DEF Init, Faults
  <2>3. DOMAIN hash_map = {} /\ DOMAIN measures = {}
    BY DEF Init, NoHashers, NoRows
  <2>4. buff \in Seq(Rows) /\ saved \in Seq(Rows) /\ inbox \in Seq(Tags)
    BY <2>1 DEF Init
  <2>5. unsaved \in Seq(HashedValue) /\ Len(unsaved) <= 2
    BY <2>1 DEF Init
  <2>6. next_id \in Nat \ {0} /\ first_id \in 1 .. next_id
    BY DEF Init
  <2>7. flushing \in BOOLEAN /\ value_units \subseteq Tags
    BY DEF Init
  <2> QED
    BY <1>1, <2>2, <2>3, <2>4, <2>5, <2>6, <2>7 DEF TypeOK
<1>3. \A tag \in DOMAIN hash_map : Geometry(hash_map[tag])
  BY DEF Init, NoHashers
<1>4. NothingLost /\ BufferBounded
  BY <1>1, MeasureMasterAssumption DEF NothingLost, BufferBounded
<1> QED
  BY <1>2, <1>3, <1>4 DEF IndInv, Init

\* One turn of write_measure changes only the hashers and what waits to be saved.
LEMMA AddMeasurePreserves ==
  ASSUME IndInv, NEW v \in Measures, AddMeasure(v)
  PROVE  IndInv'
<1> USE DEF IndInv
<1>1. /\ inbox \in Seq(Tags) /\ inbox # <<>> /\ unsaved = <<>>
      /\ Head(inbox) \in Tags /\ Tail(inbox) \in Seq(Tags)
  BY DEF TypeOK, AddMeasure
<1>2. now \in Nat
  BY MeasureMasterAssumption DEF TypeOK
<1>3. UNCHANGED <<buff, flushing, now, read_at, tableVars, value_units, saved, faults>>
  BY DEF AddMeasure
<1>4. NothingLost' /\ BufferBounded'
  BY <1>3 DEF NothingLost, BufferBounded, tableVars, Elements
<1>5. CASE Head(inbox) \notin Logging
  <2>1. inbox' = Tail(inbox) /\ UNCHANGED <<hash_map, unsaved>>
    BY <1>5 DEF AddMeasure
  <2>2. TypeOK'
    BY <1>1, <1>3, <2>1 DEF TypeOK, tableVars, Elements
  <2> QED
    BY <1>1, <1>4, <2>1, <2>2
<1>6. CASE Head(inbox) \in Logging
  <2> DEFINE tag == Head(inbox)
             result == IF tag \in DOMAIN hash_map
                         THEN Add(hash_map[tag], v, now)
                         ELSE CurrentVal(NewHasher(v, now))
  <2>1. WellFormed(result)
    BY <1>2, AddType, NewHasherType DEF TypeOK
  <2>2. /\ hash_map' = [id \in DOMAIN hash_map \cup {tag} |->
                          IF id = tag THEN result.hasher ELSE hash_map[id]]
        /\ unsaved' = result.before \o result.now
        /\ inbox' = IF unsaved' = <<>> THEN Tail(inbox) ELSE inbox
    BY <1>6 DEF AddMeasure
  <2> HIDE DEF result
  <2>3. unsaved' \in Seq(HashedValue) /\ Len(unsaved') <= 2
    <3>1. /\ result.before \in Seq(HashedValue) /\ Len(result.before) <= 1
          /\ result.now \in Seq(HashedValue) /\ Len(result.now) <= 1
      BY <2>1 DEF WellFormed
    <3> QED
      BY <2>2, <3>1, ShortPair
  <2>4. /\ DOMAIN hash_map' \subseteq Logging
        /\ \A id \in DOMAIN hash_map' :
             hash_map'[id] \in ValueHasher /\ Geometry(hash_map'[id])
    BY <1>6, <2>1, <2>2 DEF TypeOK, WellFormed
  <2>5. inbox' \in Seq(Tags) /\ (unsaved' # <<>> => inbox' # <<>>)
    BY <1>1, <2>2
  <2>6. TypeOK'
    BY <1>3, <2>3, <2>4, <2>5 DEF TypeOK, tableVars, Elements
  <2> QED
    BY <1>4, <2>4, <2>5, <2>6
<1> QED
  BY <1>5, <1>6

\* A point goes from add to the buffer, and is recorded as saved.
LEMMA SaveValuePreserves ==
  ASSUME IndInv, SaveValue
  PROVE  IndInv'
<1> USE DEF IndInv
<1> DEFINE row == Row(Head(inbox), Head(unsaved))
<1>1. /\ unsaved \in Seq(HashedValue) /\ unsaved # <<>> /\ Len(unsaved) <= 2
      /\ inbox \in Seq(Tags) /\ inbox # <<>>
  BY DEF TypeOK, SaveValue
<1>2. /\ Head(unsaved) \in HashedValue /\ Tail(unsaved) \in Seq(HashedValue)
      /\ Len(Tail(unsaved)) <= 2
      /\ Head(inbox) \in Tags /\ Tail(inbox) \in Seq(Tags)
  BY <1>1
<1>3. row \in Rows
  BY <1>2 DEF Row, Rows
<1>4. buff \in Seq(Rows) /\ saved \in Seq(Rows)
  BY DEF TypeOK
<1>5. /\ buff' = Append(buff, row) /\ saved' = Append(saved, row)
      /\ flushing' = (Len(buff') > BatchSize)
      /\ unsaved' = Tail(unsaved)
      /\ inbox' = IF unsaved' = <<>> THEN Tail(inbox) ELSE inbox
      /\ UNCHANGED <<hash_map, now, read_at, tableVars, value_units, faults>>
  BY DEF SaveValue
<1> HIDE DEF row
<1>6. /\ buff' \in Seq(Rows) /\ saved' \in Seq(Rows)
      /\ Elements(buff') = Elements(buff) \cup {row}
      /\ Elements(saved') = Elements(saved) \cup {row}
  BY <1>3, <1>4, <1>5, ElementsAppend
<1>7. Elements(measures') = Elements(measures)
  BY <1>5 DEF tableVars
<1>8. flushing' \in BOOLEAN
  BY <1>5
<1>9. inbox' \in Seq(Tags) /\ (unsaved' # <<>> => inbox' # <<>>)
  BY <1>1, <1>2, <1>5
<1>10. TypeOK'
  BY <1>2, <1>5, <1>6, <1>7, <1>8, <1>9 DEF TypeOK, tableVars
<1>11. NothingLost'
  BY <1>5, <1>6, <1>7 DEF NothingLost
<1>12. BufferBounded'
  BY <1>5 DEF BufferBounded
<1> QED
  BY <1>5, <1>9, <1>10, <1>11, <1>12

\* A commit moves the buffer to the table; whether it is then cleared or kept makes
\* no difference to what is lost.
LEMMA FlushPreserves ==
  ASSUME IndInv, FlushCommits \/ FlushCommitsLate \/ FlushFails
  PROVE  IndInv'
<1> USE DEF IndInv
<1>1. /\ UNCHANGED <<hash_map, inbox, unsaved, now, read_at, value_units, saved>>
      /\ flushing' = FALSE
      /\ faults' \in Faults
  <2>1. faults \in Faults
    BY DEF TypeOK
  <2>2. CASE FlushCommits
    BY <2>1, <2>2, FaultCounts DEF FlushCommits
  <2>3. CASE FlushCommitsLate
    BY <2>1, <2>3, FaultCounts DEF FlushCommitsLate
  <2>4. CASE FlushFails
    BY <2>1, <2>4, FaultCounts DEF FlushFails
  <2> QED
    BY <2>2, <2>3, <2>4
<1>2. \/ Insert /\ buff' = <<>>
      \/ Insert /\ buff' = buff /\ faults'.kept = TRUE
      \/ UNCHANGED <<tableVars, buff>> /\ faults'.kept = TRUE
  <2>1. faults \in Faults
    BY DEF TypeOK
  <2>2. CASE FlushCommits
    BY <2>2 DEF FlushCommits
  <2>3. CASE FlushCommitsLate
    BY <2>1, <2>3, FaultCounts DEF FlushCommitsLate
  <2>4. CASE FlushFails
    BY <2>1, <2>4, FaultCounts DEF FlushFails, tableVars
  <2> QED
    BY <2>2, <2>3, <2>4
<1>3. /\ next_id \in Nat \ {0} /\ first_id \in 1 .. next_id /\ buff \in Seq(Rows)
      /\ DOMAIN measures \subseteq 1 .. next_id - 1 /\ Elements(measures) \subseteq Rows
  BY DEF TypeOK
<1>4. Elements(buff) \subseteq Rows
  BY <1>3 DEF Elements
<1>5. /\ next_id' \in Nat \ {0} /\ first_id' \in 1 .. next_id'
      /\ DOMAIN measures' \subseteq 1 .. next_id' - 1 /\ Elements(measures') \subseteq Rows
      /\ Elements(measures) \subseteq Elements(measures')
      /\ Elements(buff) \subseteq Elements(measures') \cup Elements(buff')
  <2>1. CASE Insert
    BY <1>3, <1>4, <2>1, InsertFacts
  <2>2. CASE UNCHANGED <<tableVars, buff>>
    BY <1>3, <2>2 DEF tableVars
  <2> QED
    BY <1>2, <2>1, <2>2
<1>6. buff' \in Seq(Rows)
  <2>1. <<>> \in Seq(Rows)
    OBVIOUS
  <2> QED
    BY <1>2, <1>3, <2>1
<1>7. TypeOK'
  BY <1>1, <1>5, <1>6 DEF TypeOK
<1>8. NothingLost'
  BY <1>1, <1>5 DEF NothingLost
<1>9. BufferBounded'
  <2>1. buff' = <<>> => ~(Len(buff') > BatchSize)
    BY MeasureMasterAssumption
  <2> QED
    BY <1>2, <2>1 DEF BufferBounded
<1> QED
  BY <1>1, <1>7, <1>8, <1>9

\* The deletion of a value takes its rows out of the table, and only these.
LEMMA DeleteValuePreserves ==
  ASSUME IndInv, NEW tag \in Tags, DeleteValue(tag)
  PROVE  IndInv'
<1> USE DEF IndInv
<1>1. /\ value_units' = value_units \ {tag}
      /\ measures' = [n \in {m \in DOMAIN measures : measures[m].id # tag} |-> measures[n]]
      /\ UNCHANGED <<workerVars, now, read_at, next_id, first_id, saved, faults>>
  BY DEF DeleteValue
<1>2. /\ DOMAIN measures' \subseteq DOMAIN measures
      /\ Elements(measures') = {row \in Elements(measures) : row.id # tag}
  BY <1>1 DEF Elements
<1>3. TypeOK'
  BY <1>1, <1>2 DEF TypeOK, workerVars
<1>4. NothingLost'
  <2>1. Elements(saved') = Elements(saved) /\ Elements(buff') = Elements(buff)
    BY <1>1 DEF workerVars
  <2> QED
    BY <1>1, <1>2, <2>1 DEF NothingLost
<1> QED
  BY <1>1, <1>3, <1>4 DEF workerVars, BufferBounded

LEMMA RestartPreserves ==
  ASSUME IndInv, Restart
  PROVE  IndInv'
<1> USE DEF IndInv
<1>1. /\ hash_map' = NoHashers
      /\ buff' = <<>> /\ inbox' = <<>> /\ unsaved' = <<>> /\ saved' = <<>>
      /\ flushing' = FALSE
      /\ first_id' = next_id
      /\ UNCHANGED <<now, read_at, measures, next_id, value_units>>
  BY DEF Restart
<1>2. faults' \in Faults
  BY FaultCounts DEF Restart, TypeOK
<1>3. DOMAIN hash_map' = {}
  BY <1>1 DEF NoHashers
<1>4. Elements(saved') = {} /\ Len(buff') = 0
  BY <1>1 DEF Elements
<1>5. TypeOK'
  <2>1. Elements(measures') = Elements(measures)
    BY <1>1
  <2>2. /\ <<>> \in Seq(Rows) /\ <<>> \in Seq(Tags) /\ <<>> \in Seq(HashedValue)
        /\ Len(<<>>) = 0
    OBVIOUS
  <2>3. next_id' \in Nat \ {0} /\ first_id' \in 1 .. next_id'
    BY <1>1 DEF TypeOK
  <2>4. DOMAIN measures' \subseteq 1 .. next_id' - 1 /\ Elements(measures') \subseteq Rows
    BY <1>1, <2>1 DEF TypeOK
  <2>5. buff' \in Seq(Rows) /\ saved' \in Seq(Rows) /\ inbox' \in Seq(Tags)
    BY <1>1, <2>2
  <2>6. unsaved' \in Seq(HashedValue) /\ Len(unsaved') <= 2
    BY <1>1, <2>2
  <2>7. /\ flushing' \in BOOLEAN /\ value_units' \subseteq Tags
        /\ now' \in 1 .. MaxTime /\ read_at' \in [Tags -> 0 .. now']
    BY <1>1 DEF TypeOK
  <2> QED
    BY <1>2, <1>3, <2>3, <2>4, <2>5, <2>6, <2>7 DEF TypeOK
<1>6. NothingLost' /\ BufferBounded'
  BY <1>4, MeasureMasterAssumption DEF NothingLost, BufferBounded
<1> QED
  BY <1>1, <1>3, <1>5, <1>6

LEMMA ReceivePreserves ==
  ASSUME IndInv, Receive
  PROVE  IndInv'
<1> USE DEF IndInv
<1>1. /\ now' \in 1 .. MaxTime /\ read_at' \in [Tags -> 0 .. now']
      /\ inbox' \in Seq(Tags)
      /\ unsaved = <<>>
      /\ UNCHANGED <<hash_map, buff, unsaved, flushing, tableVars, value_units, saved, faults>>
  <2>1. PICK d \in Gaps, device \in Devices :
          /\ now + d <= MaxTime /\ now' = now + d /\ inbox' = device
          /\ read_at' = [tag \in Tags |-> IF tag \in Elements(device) THEN now' ELSE read_at[tag]]
    BY DEF Receive
  <2>2. d \in Nat /\ now \in Nat /\ 1 <= now /\ read_at \in [Tags -> 0 .. now]
    BY MeasureMasterAssumption DEF TypeOK
  <2>3. now' \in 1 .. MaxTime /\ now <= now'
    BY <2>1, <2>2, MeasureMasterAssumption
  <2>4. \A tag \in Tags : (IF tag \in Elements(device) THEN now' ELSE read_at[tag]) \in 0 .. now'
    BY <2>2, <2>3
  <2> QED
    BY <2>1, <2>3, <2>4, MeasureMasterAssumption DEF Receive, Idle
<1>2. TypeOK'
  BY <1>1 DEF TypeOK, tableVars, Elements
<1> QED
  BY <1>1, <1>2 DEF NothingLost, BufferBounded, tableVars, Elements

LEMMA StepIndInv == IndInv /\ [Next]_vars => IndInv'
<1> SUFFICES ASSUME IndInv, [Next]_vars PROVE IndInv'
  OBVIOUS
<1>1. CASE UNCHANGED vars
  BY <1>1 DEF IndInv, TypeOK, NothingLost, BufferBounded, Elements, vars, workerVars, tableVars
<1>2. CASE Receive
  BY <1>2, ReceivePreserves
<1>3. ASSUME NEW v \in Measures, AddMeasure(v) PROVE IndInv'
  BY <1>3, AddMeasurePreserves
<1>4. CASE SaveValue
  BY <1>4, SaveValuePreserves
<1>5. CASE FlushCommits \/ FlushFails \/ FlushCommitsLate
  BY <1>5, FlushPreserves
<1>6. ASSUME NEW tag \in Tags, DeleteValue(tag) PROVE IndInv'
  BY <1>6, DeleteValuePreserves
<1>7. CASE Restart
  BY <1>7, RestartPreserves
<1> QED
  BY <1>1, <1>2, <1>3, <1>4, <1>5, <1>6, <1>7 DEF Next

-----------------------------------------------------------------------------
(* The theorems.                                                             *)

(***************************************************************************)
(* The inductive invariant holds in every reachable state.                 *)
(***************************************************************************)
THEOREM Invariance == Spec => []IndInv
<1> QED
  BY InitIndInv, StepIndInv, PTL DEF Spec

(***************************************************************************)
(* Every hasher stays a hasher, and the buffer and the table hold rows.    *)
(***************************************************************************)
THEOREM TypeCorrect == Spec => []TypeOK
<1>1. IndInv => TypeOK
  BY DEF IndInv
<1> QED
  BY Invariance, <1>1, PTL

(***************************************************************************)
(* Whatever fails, is deleted or restarted, a row given to save_value is   *)
(* in the table or in the buffer as long as its tag exists and the program *)
(* runs.                                                                   *)
(***************************************************************************)
THEOREM NothingLostHolds == Spec => []NothingLost
<1>1. IndInv => NothingLost
  BY DEF IndInv
<1> QED
  BY Invariance, <1>1, PTL

(***************************************************************************)
(* The buffer is longer than a batch only while it is being flushed or     *)
(* after a flush that kept it.                                             *)
(***************************************************************************)
THEOREM BufferBoundedHolds == Spec => []BufferBounded
<1>1. IndInv => BufferBounded
  BY DEF IndInv
<1> QED
  BY Invariance, <1>1, PTL

(***************************************************************************)
(* Once a row of a deleted tag is in the buffer, the table gets no row of  *)
(* any tag before the next restart: every way to move rows into it needs a *)
(* buffer without such a row.                                              *)
(***************************************************************************)
THEOREM PoisonStaysHolds == Spec => PoisonStays
<1> DEFINE Stays == (~Insertable /\ faults'.crashes = faults.crashes) =>
                      /\ Elements(measures') \subseteq Elements(measures)
                      /\ Len(buff') >= Len(buff)
<1>1. IndInv /\ [Next]_vars => [Stays]_vars
  <2> SUFFICES ASSUME IndInv, Next, ~Insertable, faults'.crashes = faults.crashes
               PROVE  /\ Elements(measures') \subseteq Elements(measures)
                      /\ Len(buff') >= Len(buff)
    OBVIOUS
  <2>1. /\ buff \in Seq(Rows) /\ Len(buff) \in Nat
        /\ faults \in Faults /\ faults.crashes \in Nat
    BY MeasureMasterAssumption DEF IndInv, TypeOK, Faults
  <2>2. CASE Receive
    BY <2>1, <2>2 DEF Receive, tableVars
  <2>3. ASSUME NEW v \in Measures, AddMeasure(v)
        PROVE  UNCHANGED <<measures, buff>>
    BY <2>3 DEF AddMeasure, tableVars
  <2>4. CASE SaveValue
    BY <2>1, <2>4 DEF SaveValue, tableVars
  <2>5. CASE FlushCommits \/ FlushCommitsLate
    BY <2>5 DEF FlushCommits, FlushCommitsLate
  <2>6. CASE FlushFails
    BY <2>1, <2>6 DEF FlushFails, tableVars
  <2>7. ASSUME NEW tag \in Tags, DeleteValue(tag)
        PROVE  Elements(measures') \subseteq Elements(measures) /\ buff' = buff
    BY <2>7 DEF DeleteValue, workerVars, Elements
  <2>8. ~Restart
    <3> SUFFICES ASSUME Restart PROVE FALSE
      OBVIOUS
    <3>1. /\ faults.crashes < MaxCrashes
          /\ faults' = [faults EXCEPT !.crashes = @ + 1, !.kept = FALSE]
      BY DEF Restart
    <3>2. faults'.crashes = faults.crashes + 1
      BY <2>1, <3>1, FaultCounts
    <3> QED
      BY <2>1, <3>2
  <2> QED
    BY <2>1, <2>2, <2>3, <2>4, <2>5, <2>6, <2>7, <2>8 DEF Next
<1> QED
  BY Invariance, <1>1, PTL DEF Spec, PoisonStays
-----------------------------------------------------------------------------
(* The rows of the table are those of SaveValue, in order.                   *)

\* What a commit does to the rows by their ids.
LEMMA InsertedRows ==
  ASSUME IndInv, Insert
  PROVE  LET new == next_id .. next_id + Len(buff) - 1
         IN  /\ next_id' = next_id + Len(buff) /\ first_id' = first_id
             /\ DOMAIN measures' = DOMAIN measures \cup new
             /\ \A n \in DOMAIN measures : n \notin new /\ measures'[n] = measures[n]
             /\ \A i \in 1 .. Len(buff) : measures'[next_id + i - 1] = buff[i]
<1> DEFINE new == next_id .. next_id + Len(buff) - 1
<1>1. /\ next_id \in Nat \ {0} /\ Len(buff) \in Nat
      /\ DOMAIN measures \subseteq 1 .. next_id - 1
  BY DEF IndInv, TypeOK
<1>2. /\ next_id' = next_id + Len(buff) /\ first_id' = first_id
      /\ DOMAIN measures' = DOMAIN measures \cup new
      /\ \A n \in DOMAIN measures' :
           measures'[n] = IF n < next_id THEN measures[n] ELSE buff[n - next_id + 1]
  BY DEF Insert
<1>3. \A n \in DOMAIN measures : n < next_id /\ n \notin new
  BY <1>1
<1>4. \A i \in 1 .. Len(buff) : /\ next_id + i - 1 \in new /\ ~(next_id + i - 1 < next_id)
                                /\ (next_id + i - 1) - next_id + 1 = i
  BY <1>1
<1> HIDE DEF new
<1>5. \A i \in 1 .. Len(buff) : measures'[next_id + i - 1] = buff[i]
  BY <1>2, <1>4
<1> QED
  BY <1>2, <1>3, <1>5 DEF new

\* The rows saved since the start and the table, as StoredOnceInOrder has them.
InOrder(s, b, m, first, next, units) ==
  LET stored == next - first
      id(i)  == first + i - 1
  IN  /\ Len(s) = stored + Len(b)
      /\ \A i \in 1 .. Len(b) : b[i] = s[stored + i]
      /\ \A i \in 1 .. stored :
           IF s[i].id \in units
             THEN id(i) \in DOMAIN m /\ m[id(i)] = s[i]
             ELSE id(i) \notin DOMAIN m

StoredInOrder == InOrder(saved, buff, measures, first_id, next_id, value_units)

LEMMA OrderedSaveValue ==
  ASSUME IndInv, StoredInOrder, SaveValue
  PROVE  StoredInOrder'
<1> DEFINE row == Row(Head(inbox), Head(unsaved))
           n == next_id - first_id
<1>1. /\ buff \in Seq(Rows) /\ saved \in Seq(Rows) /\ row \in Rows
      /\ next_id \in Nat \ {0} /\ first_id \in 1 .. next_id
  <2>1. /\ buff \in Seq(Rows) /\ saved \in Seq(Rows)
        /\ next_id \in Nat \ {0} /\ first_id \in 1 .. next_id
        /\ inbox \in Seq(Tags) /\ inbox # <<>>
        /\ unsaved \in Seq(HashedValue) /\ unsaved # <<>>
    BY DEF IndInv, TypeOK, SaveValue
  <2>2. Head(inbox) \in Tags /\ Head(unsaved) \in HashedValue
    BY <2>1
  <2> QED
    BY <2>1, <2>2 DEF Row, Rows
<1>2. /\ buff' = Append(buff, row) /\ saved' = Append(saved, row)
      /\ UNCHANGED <<measures, first_id, next_id, value_units>>
  BY DEF SaveValue, tableVars
<1> HIDE DEF row
<1>3. /\ Len(buff') = Len(buff) + 1 /\ Len(saved') = Len(saved) + 1
      /\ \A i \in 1 .. Len(buff) : buff'[i] = buff[i]
      /\ \A i \in 1 .. Len(saved) : saved'[i] = saved[i]
      /\ buff'[Len(buff) + 1] = row /\ saved'[Len(saved) + 1] = row
      /\ Len(buff) \in Nat /\ n \in Nat
  BY <1>1, <1>2
<1>4. /\ Len(saved) = n + Len(buff)
      /\ \A i \in 1 .. Len(buff) : buff[i] = saved[n + i]
      /\ \A i \in 1 .. n :
           IF saved[i].id \in value_units
             THEN first_id + i - 1 \in DOMAIN measures /\ measures[first_id + i - 1] = saved[i]
             ELSE first_id + i - 1 \notin DOMAIN measures
  BY DEF StoredInOrder, InOrder
<1>5. n' = n
  BY <1>2
<1> HIDE DEF n
<1>6. Len(saved') = n + Len(buff')
  BY <1>3, <1>4
<1>7. \A i \in 1 .. Len(buff') : buff'[i] = saved'[n + i]
  <2> SUFFICES ASSUME NEW i \in 1 .. Len(buff') PROVE buff'[i] = saved'[n + i]
    OBVIOUS
  <2>1. CASE i = Len(buff) + 1
    <3>1. n + i = Len(saved) + 1
      BY <1>3, <1>4, <2>1
    <3> QED
      BY <1>3, <2>1, <3>1
  <2>2. CASE i # Len(buff) + 1
    <3>1. i \in 1 .. Len(buff) /\ n + i \in 1 .. Len(saved)
      BY <1>3, <1>4, <2>2
    <3> QED
      BY <1>3, <1>4, <3>1
  <2> QED
    BY <2>1, <2>2
<1>8. \A i \in 1 .. n : saved'[i] = saved[i]
  BY <1>3, <1>4
<1> QED
  BY <1>2, <1>4, <1>5, <1>6, <1>7, <1>8 DEF StoredInOrder, InOrder, n

LEMMA OrderedCommit ==
  ASSUME IndInv, StoredInOrder, FlushCommits
  PROVE  StoredInOrder'
<1> DEFINE n == next_id - first_id
           b == Len(buff)
<1>1. /\ next_id \in Nat \ {0} /\ first_id \in 1 .. next_id /\ b \in Nat /\ n \in Nat
      /\ DOMAIN measures \subseteq 1 .. next_id - 1
      /\ buff \in Seq(Rows)
  BY DEF IndInv, TypeOK
<1>2. /\ next_id' = next_id + b /\ first_id' = first_id
      /\ DOMAIN measures' = DOMAIN measures \cup (next_id .. next_id + b - 1)
      /\ \A k \in DOMAIN measures :
           k \notin next_id .. next_id + b - 1 /\ measures'[k] = measures[k]
      /\ \A i \in 1 .. b : measures'[next_id + i - 1] = buff[i]
  BY InsertedRows DEF FlushCommits
<1>3. buff' = <<>> /\ saved' = saved /\ value_units' = value_units
  BY DEF FlushCommits
<1>4. \A i \in 1 .. b : buff[i].id \in value_units
  BY <1>1 DEF FlushCommits, Insertable, Ids
<1>5. /\ Len(saved) = n + b
      /\ \A i \in 1 .. b : buff[i] = saved[n + i]
      /\ \A i \in 1 .. n :
           IF saved[i].id \in value_units
             THEN first_id + i - 1 \in DOMAIN measures /\ measures[first_id + i - 1] = saved[i]
             ELSE first_id + i - 1 \notin DOMAIN measures
  BY DEF StoredInOrder, InOrder
<1>6. next_id' - first_id' = n + b /\ n + first_id = next_id
  BY <1>1, <1>2
<1> HIDE DEF n, b
<1>7. \A i \in 1 .. n + b :
        IF saved[i].id \in value_units
          THEN first_id + i - 1 \in DOMAIN measures' /\ measures'[first_id + i - 1] = saved[i]
          ELSE first_id + i - 1 \notin DOMAIN measures'
  <2> SUFFICES ASSUME NEW i \in 1 .. n + b
               PROVE  IF saved[i].id \in value_units
                        THEN /\ first_id + i - 1 \in DOMAIN measures'
                             /\ measures'[first_id + i - 1] = saved[i]
                        ELSE first_id + i - 1 \notin DOMAIN measures'
    OBVIOUS
  <2>1. CASE i \in 1 .. n
    <3>1. first_id + i - 1 \notin next_id .. next_id + b - 1
      BY <1>1, <1>6, <2>1
    <3> QED
      BY <1>2, <1>5, <2>1, <3>1
  <2>2. CASE i \notin 1 .. n
    <3>1. i - n \in 1 .. b /\ n + (i - n) = i /\ next_id + (i - n) - 1 = first_id + i - 1
      BY <1>1, <1>6, <2>2
    <3>2. saved[i] = buff[i - n] /\ saved[i].id \in value_units
      BY <1>4, <1>5, <3>1
    <3>3. first_id + i - 1 \in next_id .. next_id + b - 1
      BY <1>1, <1>6, <3>1
    <3>4. measures'[first_id + i - 1] = buff[i - n]
      BY <1>2, <3>1
    <3> QED
      BY <1>2, <3>2, <3>3, <3>4
  <2> QED
    BY <2>1, <2>2
<1>8. Len(<<>>) = 0 /\ \A i : i \notin 1 .. 0
  OBVIOUS
<1>9. n + b + 0 = n + b
  BY <1>1
<1> QED
  BY <1>2, <1>3, <1>5, <1>6, <1>7, <1>8, <1>9 DEF StoredInOrder, InOrder

LEMMA OrderedDelete ==
  ASSUME IndInv, StoredInOrder, NEW tag \in Tags, DeleteValue(tag)
  PROVE  StoredInOrder'
<1>1. /\ value_units' = value_units \ {tag}
      /\ DOMAIN measures' = {n \in DOMAIN measures : measures[n].id # tag}
      /\ \A n \in DOMAIN measures' : measures'[n] = measures[n]
      /\ UNCHANGED <<saved, buff, first_id, next_id>>
  BY DEF DeleteValue, workerVars
<1>2. ASSUME NEW i \in 1 .. next_id - first_id
      PROVE  IF saved[i].id \in value_units'
               THEN /\ first_id + i - 1 \in DOMAIN measures'
                    /\ measures'[first_id + i - 1] = saved[i]
               ELSE first_id + i - 1 \notin DOMAIN measures'
  <2>1. IF saved[i].id \in value_units
          THEN first_id + i - 1 \in DOMAIN measures /\ measures[first_id + i - 1] = saved[i]
          ELSE first_id + i - 1 \notin DOMAIN measures
    BY DEF StoredInOrder, InOrder
  <2> QED
    BY <1>1, <2>1
<1> QED
  BY <1>1, <1>2 DEF StoredInOrder, InOrder

LEMMA OrderedRestart ==
  ASSUME IndInv, Restart
  PROVE  StoredInOrder'
<1>1. buff' = <<>> /\ saved' = <<>> /\ first_id' = next_id /\ next_id' = next_id
  BY DEF Restart
<1>2. next_id \in Nat
  BY DEF IndInv, TypeOK
<1>3. next_id - next_id = 0 /\ \A i : i \notin 1 .. 0
  BY <1>2
<1>4. Len(<<>>) = 0 /\ 0 = 0 + 0
  OBVIOUS
<1> QED
  BY <1>1, <1>3, <1>4 DEF StoredInOrder, InOrder

\* No late commit so far: there was none before this step either.
LEMMA OrderedStep ==
  ASSUME IndInv, StoredOnceInOrder, [Next]_vars
  PROVE  StoredOnceInOrder'
<1> SUFFICES ASSUME faults'.late = 0
             PROVE  StoredInOrder'
  BY DEF StoredOnceInOrder, StoredInOrder, InOrder
<1>1. faults \in Faults /\ faults.late \in Nat
  BY MeasureMasterAssumption DEF IndInv, TypeOK, Faults
<1>2. CASE UNCHANGED <<saved, buff, tableVars, value_units, faults>>
  BY <1>2 DEF StoredOnceInOrder, StoredInOrder, InOrder, tableVars
<1>3. CASE SaveValue
  <2>1. StoredInOrder
    BY <1>3 DEF SaveValue, StoredOnceInOrder, StoredInOrder, InOrder
  <2> QED
    BY <1>3, <2>1, OrderedSaveValue
<1>4. CASE FlushCommits
  <2>1. faults.late = 0
    BY <1>1, <1>4 DEF FlushCommits, Faults
  <2>2. StoredInOrder
    BY <2>1 DEF StoredOnceInOrder, StoredInOrder, InOrder
  <2> QED
    BY <1>4, <2>2, OrderedCommit
<1>5. CASE FlushFails
  <2>1. faults'.late = faults.late
    <3>1. CASE faults' = [faults EXCEPT !.kept = TRUE]
      BY <1>1, <3>1 DEF Faults
    <3>2. CASE faults' = [faults EXCEPT !.failed = @ + 1, !.kept = TRUE]
      <4> DEFINE f == [faults EXCEPT !.failed = @ + 1]
      <4>1. f.late = faults.late /\ faults' = [f EXCEPT !.kept = TRUE]
        BY <1>1, <3>2 DEF Faults
      <4> QED
        BY <1>1, <4>1 DEF Faults
    <3> QED
      BY <1>5, <3>1, <3>2 DEF FlushFails
  <2> QED
    BY <1>5, <2>1 DEF FlushFails, StoredOnceInOrder, StoredInOrder, InOrder, tableVars
<1>6. CASE FlushCommitsLate
  <2>1. faults'.late = faults.late + 1
    <3> DEFINE f == [faults EXCEPT !.late = @ + 1]
    <3>1. f.late = faults.late + 1 /\ faults' = [f EXCEPT !.kept = TRUE]
      BY <1>1, <1>6 DEF FlushCommitsLate, Faults
    <3> QED
      BY <1>1, <3>1 DEF Faults
  <2> QED
    BY <1>1, <2>1
<1>7. ASSUME NEW tag \in Tags, DeleteValue(tag) PROVE StoredInOrder'
  <2>1. StoredInOrder
    BY <1>7 DEF DeleteValue, StoredOnceInOrder, StoredInOrder, InOrder
  <2> QED
    BY <1>7, <2>1, OrderedDelete
<1>8. CASE Restart
  BY <1>8, OrderedRestart
<1>9. CASE Receive \/ \E v \in Measures : AddMeasure(v)
  BY <1>2, <1>9 DEF Receive, AddMeasure
<1>10. CASE UNCHANGED vars
  BY <1>2, <1>10 DEF vars, workerVars
<1> QED
  BY <1>3, <1>4, <1>5, <1>6, <1>7, <1>8, <1>9, <1>10 DEF Next

(***************************************************************************)
(* While no commit was reported as failed that had succeeded, the rows     *)
(* saved since the start stand in measures with the ids MySQL counted up   *)
(* for them, in the order of the samples and once each, and the buffer     *)
(* holds those that follow; a row is missing only because its tag was      *)
(* deleted.  (db_measure_unit.rs, save_value and flush: the buffer is      *)
(* cleared after a commit and never before)                                *)
(***************************************************************************)
THEOREM StoredOnceInOrderHolds == Spec => []StoredOnceInOrder
<1>1. Init => StoredOnceInOrder
  <2> SUFFICES ASSUME Init PROVE StoredInOrder
    BY DEF StoredOnceInOrder, StoredInOrder, InOrder
  <2>1. buff = <<>> /\ saved = <<>> /\ next_id = 1 /\ first_id = 1
    BY DEF Init
  <2>2. Len(<<>>) = 0 /\ 0 = 0 + 0 /\ 1 - 1 = 0 /\ \A i : i \notin 1 .. 0
    OBVIOUS
  <2> QED
    BY <2>1, <2>2 DEF StoredInOrder, InOrder
<1> QED
  BY Invariance, OrderedStep, <1>1, PTL DEF Spec

-----------------------------------------------------------------------------
(* The rings against what was saved of their tags.                           *)

\* The head of a sequence and the rest.
LEMMA HeadAndTail ==
  ASSUME NEW S, NEW s \in Seq(S), s # <<>>
  PROVE  /\ Elements(s) = {Head(s)} \cup Elements(Tail(s))
         /\ (\A i, j \in DOMAIN s : s[i] = s[j] => i = j) =>
              /\ Head(s) \notin Elements(Tail(s))
              /\ \A i, j \in DOMAIN Tail(s) : Tail(s)[i] = Tail(s)[j] => i = j
<1> DEFINE r == Tail(s)
           n == Len(s)
<1>1. /\ n \in Nat \ {0} /\ DOMAIN s = 1 .. n /\ DOMAIN r = 1 .. n - 1
      /\ Head(s) = s[1]
      /\ \A i \in 1 .. n - 1 : r[i] = s[i + 1]
  OBVIOUS
<1> HIDE DEF r, n
<1>2. \A i \in 1 .. n : i = 1 \/ (i - 1 \in 1 .. n - 1 /\ (i - 1) + 1 = i)
  BY <1>1
<1>3. \A i \in 1 .. n - 1 : i + 1 \in 1 .. n /\ i + 1 # 1
  BY <1>1
<1>4. Elements(s) \subseteq {Head(s)} \cup Elements(r)
  <2> SUFFICES ASSUME NEW i \in 1 .. n, i # 1 PROVE s[i] \in Elements(r)
    BY <1>1 DEF Elements
  <2>1. i - 1 \in 1 .. n - 1 /\ r[i - 1] = s[i]
    BY <1>1, <1>2
  <2> QED
    BY <1>1, <2>1 DEF Elements
<1>5. {Head(s)} \cup Elements(r) \subseteq Elements(s)
  BY <1>1, <1>3 DEF Elements
<1>6. ASSUME \A i, j \in DOMAIN s : s[i] = s[j] => i = j
      PROVE  /\ Head(s) \notin Elements(r)
             /\ \A i, j \in DOMAIN r : r[i] = r[j] => i = j
  <2>1. Head(s) \notin Elements(r)
    <3> SUFFICES ASSUME NEW i \in 1 .. n - 1, r[i] = s[1] PROVE FALSE
      BY <1>1 DEF Elements
    <3>1. 1 \in 1 .. n
      BY <1>1
    <3> QED
      BY <1>1, <1>3, <1>6, <3>1
  <2>2. ASSUME NEW i \in 1 .. n - 1, NEW j \in 1 .. n - 1, r[i] = r[j]
        PROVE  i = j
    <3>1. i + 1 = j + 1
      BY <1>1, <1>3, <1>6, <2>2
    <3> QED
      BY <3>1
  <2> QED
    BY <1>1, <2>1, <2>2
<1> QED
  BY <1>4, <1>5, <1>6 DEF r

LEMMA NoElements == Elements(<<>>) = {}
<1>1. DOMAIN <<>> = {}
  OBVIOUS
<1> QED
  BY <1>1 DEF Elements

\* The types of what the invariant speaks of.
LEMMA GivenTypes ==
  ASSUME IndInv, InboxInv
  PROVE  /\ \A tag : Given(tag) \in SUBSET HashedValue
         /\ \A tag \in Tags : ReadUpTo(tag) \in Nat /\ ReadUpTo(tag) <= now
         /\ now \in Nat \ {0} /\ DOMAIN hash_map \subseteq Tags
         /\ \A tag \in DOMAIN hash_map : hash_map[tag] \in ValueHasher /\ Geometry(hash_map[tag])
<1>1. /\ now \in Nat \ {0} /\ DOMAIN hash_map \subseteq Tags
      /\ saved \in Seq(Rows) /\ unsaved \in Seq(HashedValue)
      /\ read_at \in [Tags -> 0 .. now]
      /\ \A tag \in DOMAIN hash_map : hash_map[tag] \in ValueHasher /\ Geometry(hash_map[tag])
  BY MeasureMasterAssumption, SMTT(30) DEF IndInv, TypeOK, InboxInv
<1>2. Elements(saved) \subseteq Rows /\ Elements(unsaved) \subseteq HashedValue
  <2>1. /\ \A i \in DOMAIN saved : saved[i] \in Rows
        /\ \A i \in DOMAIN unsaved : unsaved[i] \in HashedValue
    BY <1>1
  <2> QED
    BY <2>1 DEF Elements
<1>3. ASSUME NEW tag PROVE Given(tag) \in SUBSET HashedValue
  BY <1>2 DEF Given, Rows
<1>4. ASSUME NEW tag \in Tags PROVE ReadUpTo(tag) \in Nat /\ ReadUpTo(tag) <= now
  BY <1>1 DEF ReadUpTo
<1> QED
  BY <1>1, <1>3, <1>4

\* While the hashers and the points given stay, a ring keeps telling its tag.
LEMMA RingsKept ==
  ASSUME IndInv, QueryInv, hash_map' = hash_map,
         \A tag \in DOMAIN hash_map :
           /\ Given(tag)' = Given(tag)
           /\ ReadUpTo(tag)' \in Nat /\ ReadUpTo(tag) <= ReadUpTo(tag)'
  PROVE  RingsInv'
<1> SUFFICES ASSUME NEW tag \in DOMAIN hash_map
             PROVE  RingTells(hash_map[tag], Given(tag)', ReadUpTo(tag)')
  BY DEF RingsInv
<1> DEFINE h == hash_map[tag]
           s == ReadUpTo(tag)
           t == ReadUpTo(tag)'
           rows == Given(tag)
<1>1. /\ h \in ValueHasher /\ Geometry(h) /\ rows \in SUBSET HashedValue
      /\ s \in Nat /\ t \in Nat /\ s <= t
      /\ RingTells(h, rows, s)
      /\ Given(tag)' = rows
  BY GivenTypes DEF QueryInv, RingsInv
<1> HIDE DEF h, s, t, rows
<1>2. RingTellsNext(h, rows, t)
  BY <1>1, LaterTells
<1> QED
  BY <1>1, <1>2 DEF RingTellsNext, h, t

LEMMA Sooner ==
  ASSUME NEW r \in Nat, NEW s \in Nat, NEW t \in Nat, 1 <= s, r <= s, s <= t
  PROVE  t - 1 \in Nat /\ (r # t => r <= t - 1)
OBVIOUS

\* An event brings tags that are read a second or more after they were read last.
LEMMA QueryReceive ==
  ASSUME IndInv, QueryInv, 0 \notin Steps, Receive
  PROVE  QueryInv'
<1>1. /\ inbox = <<>> /\ unsaved = <<>> /\ unsaved' = <<>>
      /\ UNCHANGED <<hash_map, buff, measures, saved>>
      /\ inbox' \in Devices
  BY DEF Receive, Idle, tableVars
<1>2. PICK d \in Gaps, device \in Devices :
        /\ now' = now + d /\ inbox' = device
        /\ \A tag \in Elements(device) : read_at[tag] > 0 => now' - read_at[tag] \in Steps
        /\ read_at' = [tag \in Tags |-> IF tag \in Elements(device) THEN now' ELSE read_at[tag]]
  BY DEF Receive
<1>10. /\ now \in Nat /\ 1 <= now /\ now' \in Nat /\ now <= now'
       /\ \A tag \in Tags : read_at[tag] \in Nat /\ read_at[tag] <= now
       /\ Elements(device) \subseteq Tags
  <2>1. d \in Nat /\ now \in Nat /\ 1 <= now /\ read_at \in [Tags -> 0 .. now]
    BY MeasureMasterAssumption DEF IndInv, TypeOK
  <2>2. device \in Seq(Tags)
    BY MeasureMasterAssumption
  <2> QED
    BY <1>2, <2>1, <2>2 DEF Elements
<1>3. Waiting = {} /\ Waiting' = Elements(inbox')
  BY <1>1, NoElements DEF Waiting
<1>4. ASSUME NEW tag \in Tags
      PROVE  ReadUpTo(tag)' \in Nat /\ ReadUpTo(tag) <= ReadUpTo(tag)'
  <2>1. ReadUpTo(tag) = read_at[tag]
    BY <1>3 DEF ReadUpTo
  <2>2. ReadUpTo(tag)' = IF tag \in Elements(device) THEN now' - 1 ELSE read_at[tag]
    BY <1>2, <1>3 DEF ReadUpTo
  <2>3. tag \in Elements(device) => read_at[tag] # now'
    <3>1. 0 \notin Steps
      OBVIOUS
    <3> QED
      BY <1>2, <1>10, <3>1
  <2> QED
    <3>1. read_at[tag] \in Nat /\ now' - 1 \in Nat
      BY <1>10, Sooner
    <3>2. read_at[tag] # now' => read_at[tag] <= now' - 1
      BY <1>10, Sooner
    <3> QED
      BY <2>1, <2>2, <2>3, <3>1, <3>2
<1>5. ASSUME NEW tag PROVE Given(tag)' = Given(tag)
  BY <1>1, NoElements DEF Given
<1>6. RingsInv'
  BY <1>1, <1>4, <1>5, RingsKept, GivenTypes DEF QueryInv
<1>7. InboxInv'
  <2>1. \A tag \in Elements(inbox') : read_at'[tag] = now'
    BY <1>2, <1>10
  <2> QED
    BY <1>1, <2>1, MeasureMasterAssumption DEF InboxInv
<1>8. TableInv'
  <2>1. /\ Elements(buff') = Elements(buff) /\ Elements(saved') = Elements(saved)
        /\ Elements(measures') = Elements(measures)
    BY <1>1
  <2>2. \A row \in Elements(measures) : row.value.timestamp \in Nat /\ row.id \in Tags
    BY DEF IndInv, TypeOK, Rows, HashedValue
  <2>3. \A row \in Elements(measures) : row.value.timestamp <= ReadUpTo(row.id)'
    <3> SUFFICES ASSUME NEW row \in Elements(measures)
                 PROVE  row.value.timestamp <= ReadUpTo(row.id)'
      OBVIOUS
    <3>1. row.value.timestamp <= ReadUpTo(row.id)
      BY DEF QueryInv, TableInv
    <3>2. ReadUpTo(row.id) \in Nat /\ ReadUpTo(row.id)' \in Nat /\ ReadUpTo(row.id) <= ReadUpTo(row.id)'
      BY <1>3, <1>4, <1>10, <2>2 DEF ReadUpTo
    <3> QED
      BY <2>2, <3>1, <3>2
  <2> QED
    BY <1>1, <1>5, <2>1, <2>3 DEF QueryInv, TableInv
<1> QED
  BY <1>6, <1>7, <1>8 DEF QueryInv

\* A point goes to the buffer: it was given before, and is given still.
LEMMA QuerySaveValue ==
  ASSUME IndInv, QueryInv, SaveValue
  PROVE  QueryInv'
<1> DEFINE tag0 == Head(inbox)
           row0 == Row(tag0, Head(unsaved))
<1>1. /\ unsaved \in Seq(HashedValue) /\ unsaved # <<>>
      /\ inbox \in Seq(Tags) /\ inbox # <<>>
      /\ buff \in Seq(Rows) /\ saved \in Seq(Rows)
      /\ buff' = Append(buff, row0) /\ saved' = Append(saved, row0)
      /\ unsaved' = Tail(unsaved)
      /\ inbox' = IF unsaved' = <<>> THEN Tail(inbox) ELSE inbox
      /\ UNCHANGED <<hash_map, now, read_at, measures>>
  BY DEF IndInv, TypeOK, SaveValue, tableVars
<1>2. /\ tag0 \in Tags /\ Head(unsaved) \in HashedValue
      /\ Elements(unsaved) = {Head(unsaved)} \cup Elements(unsaved')
  BY <1>1, HeadAndTail
<1>3. row0 \in Rows /\ row0.id = tag0 /\ row0.value = Head(unsaved)
  BY <1>2 DEF Row, Rows
<1> HIDE DEF row0
<1>4. /\ Elements(buff') = Elements(buff) \cup {row0}
      /\ Elements(saved') = Elements(saved) \cup {row0}
  BY <1>1, <1>3, ElementsAppend
<1>5. /\ tag0 \notin Elements(Tail(inbox))
      /\ \A i, j \in DOMAIN Tail(inbox) : Tail(inbox)[i] = Tail(inbox)[j] => i = j
  <2>1. \A i, j \in DOMAIN inbox : inbox[i] = inbox[j] => i = j
    BY DEF QueryInv, InboxInv
  <2> QED
    BY <1>1, <2>1, HeadAndTail
<1>6. Waiting' = Waiting
  BY <1>1 DEF Waiting
<1>7. ASSUME NEW tag PROVE ReadUpTo(tag)' = ReadUpTo(tag)
  BY <1>1, <1>6 DEF ReadUpTo
<1>8. ASSUME NEW tag PROVE Given(tag)' = Given(tag)
  <2> DEFINE of(l) == {row.value : row \in {r \in l : r.id = tag}}
  <2>1. of(Elements(saved')) = of(Elements(saved)) \cup (IF tag = tag0 THEN {Head(unsaved)} ELSE {})
    BY <1>3, <1>4
  <2> HIDE DEF of, tag0
  <2>2. CASE unsaved' = <<>>
    <3>1. Elements(unsaved') = {} /\ Elements(unsaved) = {Head(unsaved)}
      BY <1>2, <2>2, NoElements
    <3>2. Given(tag)' = of(Elements(saved'))
      BY <3>1 DEF Given, of
    <3>3. Given(tag) = of(Elements(saved)) \cup (IF tag = tag0 THEN {Head(unsaved)} ELSE {})
      BY <1>1, <3>1 DEF Given, of, tag0
    <3> QED
      BY <2>1, <3>2, <3>3
  <2>3. CASE unsaved' # <<>>
    <3>1. inbox' = inbox
      BY <1>1, <2>3
    <3>2. Given(tag)' = of(Elements(saved')) \cup (IF tag = tag0 THEN Elements(unsaved') ELSE {})
      BY <1>1, <3>1 DEF Given, of, tag0
    <3>3. Given(tag) = of(Elements(saved)) \cup (IF tag = tag0 THEN Elements(unsaved) ELSE {})
      BY <1>1 DEF Given, of, tag0
    <3> QED
      BY <1>2, <2>1, <3>2, <3>3
  <2> QED
    BY <2>2, <2>3
<1>9. RingsInv'
  <2>1. \A tag \in DOMAIN hash_map : ReadUpTo(tag) \in Nat
    BY GivenTypes DEF QueryInv
  <2> QED
    BY <1>1, <1>7, <1>8, <2>1, RingsKept
<1>10. InboxInv'
  <2>1. inbox' \in {inbox, Tail(inbox)} /\ \A tag \in Elements(inbox') : read_at'[tag] = now'
    BY <1>1, HeadAndTail DEF QueryInv, InboxInv
  <2>2. unsaved' # <<>> => Head(inbox') \in DOMAIN hash_map'
    BY <1>1 DEF QueryInv, InboxInv
  <2> QED
    BY <1>5, <2>1, <2>2 DEF QueryInv, InboxInv
<1>11. TableInv'
  <2>1. Elements(measures') = Elements(measures) /\ tag0 \in DOMAIN hash_map
    BY <1>1 DEF QueryInv, InboxInv
  <2> QED
    BY <1>1, <1>3, <1>4, <1>7, <1>8, <2>1 DEF QueryInv, TableInv
<1> QED
  BY <1>9, <1>10, <1>11 DEF QueryInv

\* Rows of the table that were given, or are older than the ring, stay so.
LEMMA TableKept ==
  ASSUME IndInv, QueryInv,
         Elements(measures') \subseteq Elements(measures) \cup Elements(saved),
         Elements(buff') \subseteq Elements(saved),
         UNCHANGED <<hash_map, saved>>,
         \A tag : Given(tag)' = Given(tag),
         \A tag \in Tags : ReadUpTo(tag)' \in Nat /\ ReadUpTo(tag) <= ReadUpTo(tag)'
  PROVE  TableInv'
<1>1. Elements(saved') = Elements(saved)
  OBVIOUS
<1>2. ASSUME NEW row \in Elements(saved)
      PROVE  /\ row.id \in DOMAIN hash_map /\ row.value \in Given(row.id)
             /\ row.value.timestamp <= ReadUpTo(row.id)
  <2>1. row.id \in DOMAIN hash_map
    BY DEF QueryInv, TableInv
  <2>2. row.value \in Given(row.id)
    BY DEF Given
  <2>3. RingTells(hash_map[row.id], Given(row.id), ReadUpTo(row.id))
    BY <2>1 DEF QueryInv, RingsInv
  <2> QED
    BY <2>1, <2>2, <2>3 DEF RingTells, Tells
<1>3. ASSUME NEW row \in Elements(measures')
      PROVE  /\ row.value.timestamp <= ReadUpTo(row.id)'
             /\ row.id \in DOMAIN hash_map =>
                  \/ row.value \in Given(row.id)
                  \/ row.value.timestamp < AtOffset(hash_map[row.id], 0).timestamp
  <2>1. row.value.timestamp \in Nat /\ row.id \in Tags
    <3>1. Elements(saved) \subseteq Rows
      BY DEF IndInv, TypeOK, Elements
    <3> QED
      BY <3>1 DEF IndInv, TypeOK, Rows, HashedValue
  <2>2. /\ row.value.timestamp <= ReadUpTo(row.id)
        /\ row.id \in DOMAIN hash_map =>
             \/ row.value \in Given(row.id)
             \/ row.value.timestamp < AtOffset(hash_map[row.id], 0).timestamp
    BY <1>2 DEF QueryInv, TableInv
  <2>3. ReadUpTo(row.id) \in Nat /\ ReadUpTo(row.id)' \in Nat /\ ReadUpTo(row.id) <= ReadUpTo(row.id)'
    BY <2>1, GivenTypes DEF QueryInv
  <2> QED
    BY <2>1, <2>2, <2>3
<1> QED
  BY <1>1, <1>2, <1>3 DEF TableInv

\* A flush and a deletion change the table and the buffer only.
LEMMA QueryFlush ==
  ASSUME IndInv, QueryInv, FlushCommits \/ FlushCommitsLate \/ FlushFails
  PROVE  QueryInv'
<1>1. /\ UNCHANGED <<hash_map, inbox, unsaved, now, read_at, saved>>
      /\ \/ Insert /\ buff' \in {<<>>, buff}
         \/ UNCHANGED <<measures, buff>>
  BY DEF FlushCommits, FlushCommitsLate, FlushFails, tableVars
<1>2. /\ next_id \in Nat \ {0} /\ first_id \in 1 .. next_id /\ buff \in Seq(Rows)
      /\ DOMAIN measures \subseteq 1 .. next_id - 1 /\ Elements(measures) \subseteq Rows
  BY DEF IndInv, TypeOK
<1>3. /\ Elements(buff') \subseteq Elements(buff)
      /\ Elements(measures') \subseteq Elements(measures) \cup Elements(buff)
  BY <1>1, <1>2, InsertFacts, NoElements
<1>4. /\ \A tag : Given(tag)' = Given(tag) /\ ReadUpTo(tag)' = ReadUpTo(tag)
      /\ \A tag \in Tags : ReadUpTo(tag) \in Nat
      /\ DOMAIN hash_map \subseteq Tags
  BY <1>1, GivenTypes DEF Given, ReadUpTo, Waiting, QueryInv
<1>5. Elements(buff) \subseteq Elements(saved)
  BY DEF QueryInv, TableInv
<1>6. TableInv'
  BY <1>1, <1>3, <1>4, <1>5, TableKept
<1>7. RingsInv'
  BY <1>1, <1>4, RingsKept
<1>8. InboxInv'
  BY <1>1 DEF QueryInv, InboxInv
<1> QED
  BY <1>6, <1>7, <1>8 DEF QueryInv

LEMMA QueryDelete ==
  ASSUME IndInv, QueryInv, NEW tag0 \in Tags, DeleteValue(tag0)
  PROVE  QueryInv'
<1>1. /\ UNCHANGED <<hash_map, inbox, unsaved, now, read_at, saved, buff>>
      /\ measures' = [n \in {m \in DOMAIN measures : measures[m].id # tag0} |-> measures[n]]
  BY DEF DeleteValue, workerVars
<1>2. Elements(measures') \subseteq Elements(measures)
  BY <1>1 DEF Elements
<1>3. /\ \A tag : Given(tag)' = Given(tag) /\ ReadUpTo(tag)' = ReadUpTo(tag)
      /\ \A tag \in Tags : ReadUpTo(tag) \in Nat
      /\ DOMAIN hash_map \subseteq Tags
  BY <1>1, GivenTypes DEF Given, ReadUpTo, Waiting, QueryInv
<1>4. Elements(buff') \subseteq Elements(saved)
  BY <1>1 DEF QueryInv, TableInv
<1>5. TableInv'
  BY <1>1, <1>2, <1>3, <1>4, TableKept
<1>6. RingsInv'
  BY <1>1, <1>3, RingsKept
<1>7. InboxInv'
  BY <1>1 DEF QueryInv, InboxInv
<1> QED
  BY <1>5, <1>6, <1>7 DEF QueryInv

\* After a start there is no ring, and every row of the table is of the past.
LEMMA QueryRestart ==
  ASSUME IndInv, QueryInv, Restart
  PROVE  QueryInv'
<1>1. /\ hash_map' = NoHashers
      /\ buff' = <<>> /\ inbox' = <<>> /\ unsaved' = <<>> /\ saved' = <<>>
      /\ UNCHANGED <<now, read_at, measures>>
  BY DEF Restart
<1>2. /\ DOMAIN hash_map' = {} /\ DOMAIN inbox' = {} /\ Elements(measures') = Elements(measures)
      /\ Elements(buff') = {} /\ Elements(saved') = {}
  <2>1. DOMAIN <<>> = {}
    OBVIOUS
  <2> QED
    BY <1>1, <2>1, NoElements DEF NoHashers
<1>3. \A tag \in Tags : ReadUpTo(tag)' = read_at[tag] /\ ReadUpTo(tag) <= read_at[tag]
  <2>1. Elements(Tail(inbox)) \subseteq Elements(inbox) \/ inbox = <<>>
    BY HeadAndTail DEF IndInv, TypeOK
  <2>2. \A tag \in Waiting : read_at[tag] = now
    BY <2>1 DEF Waiting, IndInv, QueryInv, InboxInv
  <2>3. now \in Nat /\ \A tag \in Tags : read_at[tag] \in Nat
    BY MeasureMasterAssumption DEF IndInv, TypeOK
  <2> QED
    BY <1>1, <2>2, <2>3, NoElements DEF ReadUpTo, Waiting
<1>4. \A row \in Elements(measures) : row.value.timestamp <= ReadUpTo(row.id)'
  <2> SUFFICES ASSUME NEW row \in Elements(measures) PROVE row.value.timestamp <= ReadUpTo(row.id)'
    OBVIOUS
  <2>1. row.value.timestamp \in Nat /\ row.id \in Tags /\ read_at[row.id] \in Nat
    BY DEF IndInv, TypeOK, Rows, HashedValue
  <2>2. row.value.timestamp <= ReadUpTo(row.id)
    BY DEF QueryInv, TableInv
  <2>3. ReadUpTo(row.id) \in Nat
    BY <2>1, GivenTypes DEF QueryInv
  <2> QED
    BY <1>3, <2>1, <2>2, <2>3
<1>5. TableInv'
  BY <1>2, <1>3, <1>4 DEF TableInv
<1>6. InboxInv' /\ RingsInv'
  BY <1>1, <1>2 DEF InboxInv, RingsInv
<1> QED
  BY <1>5, <1>6 DEF QueryInv

\* A tag that is not logged is only taken from the inbox.
LEMMA QueryAddUnlogged ==
  ASSUME IndInv, QueryInv, NEW v \in Measures, AddMeasure(v), Head(inbox) \notin Logging
  PROVE  QueryInv'
<1>1. /\ inbox \in Seq(Tags) /\ inbox # <<>> /\ unsaved = <<>> /\ unsaved' = <<>>
      /\ inbox' = Tail(inbox)
      /\ UNCHANGED <<hash_map, buff, now, read_at, measures, saved>>
  BY DEF AddMeasure, IndInv, TypeOK, tableVars
<1>2. /\ Elements(inbox') \subseteq Elements(inbox)
      /\ \A i, j \in DOMAIN inbox' : inbox'[i] = inbox'[j] => i = j
  <2>1. \A i, j \in DOMAIN inbox : inbox[i] = inbox[j] => i = j
    BY DEF QueryInv, InboxInv
  <2> QED
    BY <1>1, <2>1, HeadAndTail
<1>3. Waiting = Elements(inbox) /\ Waiting' = Elements(inbox')
  BY <1>1 DEF Waiting
<1>4. now \in Nat /\ now > 0 /\ DOMAIN hash_map \subseteq Tags
  BY <1>1, GivenTypes DEF QueryInv, InboxInv
<1>5. ASSUME NEW tag \in Tags
      PROVE  ReadUpTo(tag)' \in Nat /\ ReadUpTo(tag) <= ReadUpTo(tag)'
  <2>1. tag \in Waiting => read_at[tag] = now
    BY <1>3 DEF QueryInv, InboxInv
  <2>2. ReadUpTo(tag) \in Nat
    BY GivenTypes DEF QueryInv
  <2> QED
    BY <1>1, <1>2, <1>3, <1>4, <2>1, <2>2 DEF ReadUpTo
<1>6. ASSUME NEW tag PROVE Given(tag)' = Given(tag)
  BY <1>1, NoElements DEF Given
<1>7. RingsInv'
  BY <1>1, <1>4, <1>5, <1>6, RingsKept
<1>8. TableInv'
  <2>1. /\ Elements(measures') \subseteq Elements(measures)
        /\ Elements(buff') \subseteq Elements(saved)
    BY <1>1 DEF QueryInv, TableInv
  <2> QED
    BY <1>1, <1>5, <1>6, <2>1, TableKept
<1>9. InboxInv'
  BY <1>1, <1>2 DEF InboxInv, QueryInv
<1> QED
  BY <1>7, <1>8, <1>9 DEF QueryInv

\* What the ring of the tag tells after its turn: add for a ring that is there, a
\* new ring for the first value, which finds no saved row and only older stored ones.
LEMMA RingOfTurn ==
  ASSUME IndInv, QueryInv, 0 \notin Steps, NEW v \in Measures,
         NEW tag \in Waiting, unsaved = <<>>, now \in Nat \ {0},
         NEW result,
         result = IF tag \in DOMAIN hash_map
                    THEN Add(hash_map[tag], v, now)
                    ELSE CurrentVal(NewHasher(v, now))
  PROVE  /\ RingTells(result.hasher, Given(tag) \cup Returned(result), now)
         /\ tag \in DOMAIN hash_map =>
              AtOffset(hash_map[tag], 0).timestamp <= AtOffset(result.hasher, 0).timestamp
         /\ tag \notin DOMAIN hash_map => AtOffset(result.hasher, 0).timestamp = now
         /\ WellFormed(result)
<1>1. ReadUpTo(tag) = now - 1
  BY DEF ReadUpTo
<1>2. CASE tag \in DOMAIN hash_map
  <2> DEFINE h == hash_map[tag]
             rows == Given(tag)
             s == now - 1
  <2>1. /\ h \in ValueHasher /\ Geometry(h) /\ rows \in SUBSET HashedValue
        /\ s \in Nat /\ s <= now /\ s < now
        /\ RingTells(h, rows, s)
        /\ result = Add(h, v, now)
    BY <1>1, <1>2, GivenTypes DEF QueryInv, RingsInv
  <2> HIDE DEF h, rows, s
  <2>2. /\ RingTellsNext(result.hasher, rows \cup Returned(result), now)
        /\ AtOffset(h, 0).timestamp <= AtOffset(result.hasher, 0).timestamp
    BY <2>1, SampleTells
  <2>3. WellFormed(result)
    BY <2>1, AddType
  <2> QED
    BY <1>2, <2>2, <2>3 DEF RingTellsNext, h, rows
<1>3. CASE tag \notin DOMAIN hash_map
  <2>1. result = CurrentVal(NewHasher(v, now))
    BY <1>3
  <2>2. Given(tag) = {}
    <3>1. \A row \in Elements(saved) : row.id # tag
      BY <1>3 DEF QueryInv, TableInv
    <3> QED
      BY <3>1, NoElements DEF Given
  <2>3. /\ result.hasher = NewHasher(v, now)
        /\ Returned(result) = {Point(v, now)}
        /\ RingTells(NewHasher(v, now), {Point(v, now)}, now)
        /\ AtOffset(NewHasher(v, now), 0) = Point(v, now)
    BY <2>1, NewTells
  <2>4. Point(v, now).timestamp = now
    BY DEF Point
  <2>5. WellFormed(result)
    BY <2>1, NewHasherType
  <2> HIDE DEF WellFormed
  <2> QED
    BY <1>3, <2>2, <2>3, <2>4, <2>5
<1> QED
  BY <1>2, <1>3

LEMMA QueryAddLogged ==
  ASSUME IndInv, QueryInv, 0 \notin Steps,
         NEW v \in Measures, AddMeasure(v), Head(inbox) \in Logging
  PROVE  QueryInv'
<1>1. PICK tag0 : tag0 = Head(inbox)
  OBVIOUS
<1>2. PICK result : result = IF tag0 \in DOMAIN hash_map
                               THEN Add(hash_map[tag0], v, now)
                               ELSE CurrentVal(NewHasher(v, now))
  OBVIOUS
<1>3. /\ inbox \in Seq(Tags) /\ inbox # <<>> /\ unsaved = <<>>
      /\ hash_map' = [id \in DOMAIN hash_map \cup {tag0} |->
                        IF id = tag0 THEN result.hasher ELSE hash_map[id]]
      /\ unsaved' = result.before \o result.now
      /\ inbox' = IF unsaved' = <<>> THEN Tail(inbox) ELSE inbox
      /\ UNCHANGED <<buff, now, read_at, measures, saved>>
  BY <1>1, <1>2 DEF AddMeasure, IndInv, TypeOK, tableVars
<1>4. now \in Nat \ {0}
  BY <1>3, GivenTypes DEF QueryInv, InboxInv
<1>5. /\ Elements(inbox) = {tag0} \cup Elements(Tail(inbox))
      /\ tag0 \notin Elements(Tail(inbox))
      /\ \A i, j \in DOMAIN Tail(inbox) : Tail(inbox)[i] = Tail(inbox)[j] => i = j
  <2>1. \A i, j \in DOMAIN inbox : inbox[i] = inbox[j] => i = j
    BY DEF QueryInv, InboxInv
  <2> QED
    BY <1>1, <1>3, <2>1, HeadAndTail
<1>6. Waiting = Elements(inbox) /\ Waiting' = Elements(Tail(inbox)) /\ tag0 \in Waiting
  BY <1>3, <1>5 DEF Waiting
<1>7. /\ RingTells(result.hasher, Given(tag0) \cup Returned(result), now)
      /\ tag0 \in DOMAIN hash_map =>
           AtOffset(hash_map[tag0], 0).timestamp <= AtOffset(result.hasher, 0).timestamp
      /\ tag0 \notin DOMAIN hash_map => AtOffset(result.hasher, 0).timestamp = now
      /\ WellFormed(result)
  BY <1>2, <1>3, <1>4, <1>6, RingOfTurn
<1>8. Elements(unsaved') = Returned(result) /\ unsaved' \in Seq(HashedValue)
  <2>1. /\ unsaved' \in Seq(HashedValue)
        /\ RowSet(unsaved') = RowSet(result.before) \cup RowSet(result.now)
    BY <1>3, <1>7, JoinedRows DEF WellFormed
  <2>2. DOMAIN unsaved' = 1 .. Len(unsaved')
    BY <2>1
  <2> QED
    BY <2>1, <2>2 DEF Returned, RowSet, Elements
<1> HIDE DEF WellFormed
<1>9. ASSUME NEW tag \in Tags
      PROVE  /\ ReadUpTo(tag)' = IF tag = tag0 THEN now ELSE ReadUpTo(tag)
             /\ Given(tag)' = Given(tag) \cup (IF tag = tag0 THEN Returned(result) ELSE {})
             /\ ReadUpTo(tag) \in Nat
  <2>1. ReadUpTo(tag)' = IF tag = tag0 THEN now ELSE ReadUpTo(tag)
    BY <1>3, <1>5, <1>6 DEF ReadUpTo, QueryInv, InboxInv
  <2> DEFINE old == {row.value : row \in {r \in Elements(saved) : r.id = tag}}
             turn == IF inbox' # <<>> /\ Head(inbox') = tag THEN Elements(unsaved') ELSE {}
  <2>2. Given(tag) = old /\ Given(tag)' = old \cup turn
    BY <1>3, NoElements DEF Given
  <2> HIDE DEF old
  <2>3. turn = IF tag = tag0 THEN Returned(result) ELSE {}
    <3>1. CASE unsaved' = <<>>
      BY <1>8, <3>1, NoElements
    <3>2. CASE unsaved' # <<>>
      <4>1. inbox' = inbox /\ Head(inbox') = tag0 /\ inbox' # <<>>
        BY <1>1, <1>3, <3>2
      <4> QED
        BY <1>8, <4>1
    <3> QED
      BY <3>1, <3>2
  <2> HIDE DEF turn
  <2>4. Given(tag)' = Given(tag) \cup (IF tag = tag0 THEN Returned(result) ELSE {})
    BY <2>2, <2>3
  <2>5. ReadUpTo(tag) \in Nat
    BY GivenTypes DEF QueryInv
  <2> QED
    BY <2>1, <2>4, <2>5
<1>10. /\ DOMAIN hash_map' = DOMAIN hash_map \cup {tag0}
       /\ tag0 \in Tags /\ DOMAIN hash_map \subseteq Tags
       /\ hash_map'[tag0] = result.hasher
       /\ \A tag \in DOMAIN hash_map : tag # tag0 => hash_map'[tag] = hash_map[tag]
  <2>1. tag0 \in Tags
    BY <1>1, <1>3
  <2> QED
    BY <1>3, <2>1, GivenTypes DEF QueryInv
<1>11. RingsInv'
  <2> SUFFICES ASSUME NEW tag \in DOMAIN hash_map'
               PROVE  RingTells(hash_map'[tag], Given(tag)', ReadUpTo(tag)')
    BY DEF RingsInv
  <2>1. CASE tag = tag0
    BY <1>7, <1>9, <1>10, <2>1
  <2>2. CASE tag # tag0
    <3>1. /\ tag \in DOMAIN hash_map /\ hash_map'[tag] = hash_map[tag]
          /\ Given(tag)' = Given(tag) /\ ReadUpTo(tag)' = ReadUpTo(tag)
      BY <1>9, <1>10, <2>2
    <3> QED
      BY <3>1 DEF QueryInv, RingsInv
  <2> QED
    BY <2>1, <2>2
<1>12. InboxInv'
  <2>1. inbox' \in {inbox, Tail(inbox)} /\ \A tag \in Elements(inbox') : read_at'[tag] = now'
    BY <1>3, <1>5 DEF QueryInv, InboxInv
  <2>2. \A i, j \in DOMAIN inbox' : inbox'[i] = inbox'[j] => i = j
    BY <1>5, <2>1 DEF QueryInv, InboxInv
  <2>3. unsaved' # <<>> => Head(inbox') \in DOMAIN hash_map'
    BY <1>1, <1>3, <1>10
  <2> QED
    BY <2>1, <2>2, <2>3 DEF InboxInv
<1>13. ASSUME NEW row \in Elements(measures)
       PROVE  /\ row.value.timestamp <= ReadUpTo(row.id)'
              /\ row.id \in DOMAIN hash_map' =>
                   \/ row.value \in Given(row.id)'
                   \/ row.value.timestamp < AtOffset(hash_map'[row.id], 0).timestamp
  <2>1. /\ row.value.timestamp \in Nat /\ row.id \in Tags
        /\ row.value.timestamp <= ReadUpTo(row.id)
        /\ row.id \in DOMAIN hash_map =>
             \/ row.value \in Given(row.id)
             \/ row.value.timestamp < AtOffset(hash_map[row.id], 0).timestamp
    BY DEF QueryInv, TableInv, IndInv, TypeOK, Rows, HashedValue
  <2>2. CASE row.id # tag0
    <3>1. /\ ReadUpTo(row.id)' = ReadUpTo(row.id) /\ Given(row.id)' = Given(row.id)
          /\ row.id \in DOMAIN hash_map' =>
               row.id \in DOMAIN hash_map /\ hash_map'[row.id] = hash_map[row.id]
      BY <1>9, <1>10, <2>1, <2>2
    <3> QED
      BY <2>1, <3>1
  <2>3. CASE row.id = tag0
    <3>1. /\ ReadUpTo(tag0) = now - 1 /\ ReadUpTo(tag0)' = now
          /\ Given(tag0) \subseteq Given(tag0)'
      BY <1>6, <1>9, <1>10 DEF ReadUpTo
    <3>2. row.value.timestamp < now /\ row.value.timestamp <= now
      BY <1>4, <2>1, <2>3, <3>1
    <3>3. CASE tag0 \in DOMAIN hash_map
      <4>1. /\ AtOffset(hash_map[tag0], 0).timestamp \in Nat
            /\ AtOffset(result.hasher, 0).timestamp \in Nat
        <5>1. /\ hash_map[tag0] \in ValueHasher /\ Geometry(hash_map[tag0])
              /\ result.hasher \in ValueHasher /\ Geometry(result.hasher)
          BY <1>7, <3>3 DEF IndInv, TypeOK, WellFormed
        <5>2. \A h \in ValueHasher : Geometry(h) => AtOffset(h, 0) \in HashedValue
          <6> SUFFICES ASSUME NEW h \in ValueHasher, Geometry(h) PROVE AtOffset(h, 0) \in HashedValue
            OBVIOUS
          <6>1. WindowLen(h) \in 1 .. Capacity /\ Capacity \in Nat
                /\ \A j \in 0 .. WindowLen(h) - 1 : AtOffset(h, j) \in HashedValue
            BY WindowShape, HashUnitAssumption DEF ValueHasher
          <6> QED
            BY <6>1
        <5> QED
          BY <5>1, <5>2 DEF HashedValue
      <4> QED
        BY <1>7, <1>10, <2>1, <2>3, <3>1, <3>2, <3>3, <4>1
    <3>4. CASE tag0 \notin DOMAIN hash_map
      BY <1>7, <1>10, <2>3, <3>1, <3>2, <3>4
    <3> QED
      BY <3>3, <3>4
  <2> QED
    BY <2>2, <2>3
<1>14. TableInv'
  <2>1. /\ Elements(buff') \subseteq Elements(saved')
        /\ \A row \in Elements(saved') : row.id \in DOMAIN hash_map'
        /\ Elements(measures') = Elements(measures)
    BY <1>3, <1>10 DEF QueryInv, TableInv
  <2> QED
    BY <1>13, <2>1 DEF TableInv
<1> QED
  BY <1>11, <1>12, <1>14 DEF QueryInv

LEMMA QueryInvariance ==
  ASSUME 0 \notin Steps
  PROVE  Spec => []QueryInv
<1>1. Init => QueryInv
  <2> SUFFICES ASSUME Init PROVE QueryInv
    OBVIOUS
  <2>1. /\ DOMAIN hash_map = {} /\ DOMAIN inbox = {} /\ inbox = <<>> /\ unsaved = <<>>
        /\ Elements(inbox) = {}
        /\ Elements(buff) = {} /\ Elements(saved) = {} /\ Elements(measures) = {}
    <3>1. DOMAIN <<>> = {}
      OBVIOUS
    <3> QED
      BY <3>1, NoElements DEF Init, NoHashers, NoRows, Elements
  <2> QED
    BY <2>1 DEF QueryInv, InboxInv, TableInv, RingsInv
<1>2. IndInv /\ QueryInv /\ [Next]_vars => QueryInv'
  <2> SUFFICES ASSUME IndInv, QueryInv, [Next]_vars PROVE QueryInv'
    OBVIOUS
  <2>1. CASE UNCHANGED vars
    <3>1. /\ Waiting' = Waiting
          /\ \A tag : Given(tag)' = Given(tag) /\ ReadUpTo(tag)' = ReadUpTo(tag)
      BY <2>1 DEF vars, workerVars, Waiting, Given, ReadUpTo
    <3> QED
      BY <2>1, <3>1 DEF vars, workerVars, tableVars, QueryInv, InboxInv, TableInv, RingsInv
  <2>2. CASE Receive
    BY <2>2, QueryReceive
  <2>3. ASSUME NEW v \in Measures, AddMeasure(v) PROVE QueryInv'
    BY <2>3, QueryAddUnlogged, QueryAddLogged
  <2>4. CASE SaveValue
    BY <2>4, QuerySaveValue
  <2>5. CASE FlushCommits \/ FlushFails \/ FlushCommitsLate
    BY <2>5, QueryFlush
  <2>6. ASSUME NEW tag \in Tags, DeleteValue(tag) PROVE QueryInv'
    BY <2>6, QueryDelete
  <2>7. CASE Restart
    BY <2>7, QueryRestart
  <2> QED
    BY <2>1, <2>2, <2>3, <2>4, <2>5, <2>6, <2>7 DEF Next
<1> QED
  BY Invariance, <1>1, <1>2, PTL DEF Spec

\* The points from b to e of a window are those of its slots.
LEMMA CutPoints ==
  ASSUME NEW h, NEW b \in Nat, NEW e \in Nat, b < e
  PROVE  Elements(Cut(h, b, e)) = {AtOffset(h, i) : i \in b .. e - 1}
<1> DEFINE c == Cut(h, b, e)
<1>1. DOMAIN c = 1 .. e - b /\ \A j \in 1 .. e - b : c[j] = AtOffset(h, b + j - 1)
  BY DEF Cut
<1>2. \A i \in b .. e - 1 : i - b + 1 \in 1 .. e - b /\ b + (i - b + 1) - 1 = i
  OBVIOUS
<1>3. \A j \in 1 .. e - b : b + j - 1 \in b .. e - 1
  OBVIOUS
<1> HIDE DEF c
<1>4. Elements(c) \subseteq {AtOffset(h, i) : i \in b .. e - 1}
  BY <1>1, <1>3 DEF Elements
<1>5. ASSUME NEW i \in b .. e - 1 PROVE AtOffset(h, i) \in Elements(c)
  <2>1. i - b + 1 \in DOMAIN c /\ c[i - b + 1] = AtOffset(h, i)
    BY <1>1, <1>2
  <2> QED
    BY <2>1 DEF Elements
<1> QED
  BY <1>4, <1>5 DEF c

\* A point lies on a plateau: the first of the points not before it has its value.
OnPlateau(q, points) ==
  \E p \in points :
    /\ p.val = q.val /\ q.timestamp <= p.timestamp
    /\ \A o \in points : q.timestamp <= o.timestamp => p.timestamp <= o.timestamp

\* The answer of a ring to a query up to the last sample: every point saved for its
\* tag from `from` on lies on a plateau of the answer.
LEMMA RingAnswers ==
  ASSUME 0 \notin Steps,
         NEW h \in ValueHasher, Geometry(h), NEW rows \in SUBSET HashedValue,
         NEW s \in Nat, RingTells(h, rows, s),
         NEW from \in Nat, GetHashed(h, from, s + 1) # <<>>
  PROVE  /\ AtOffset(h, 0).timestamp <= from
         /\ \A q \in rows :
              from <= q.timestamp => OnPlateau(q, Elements(GetHashed(h, from, s + 1)[1]))
<1> DEFINE n == WindowLen(h)
           m == ConfirmedLen(h)
           ts(i) == AtOffset(h, i).timestamp
           inside(i) == from <= ts(i) /\ ts(i) < s + 1
           answer == GetHashed(h, from, s + 1)
<1>1. /\ n \in Nat \ {0} /\ m \in Nat \ {0} /\ m <= n
      /\ \A i \in 0 .. n - 1 : AtOffset(h, i) \in HashedValue
      /\ \A i \in 0 .. n - 1 : ts(i) \in Nat
  <2>1. /\ n \in 1 .. Capacity /\ Capacity \in Nat /\ m \in 1 .. Capacity
        /\ \A i \in 0 .. n - 1 : AtOffset(h, i) \in HashedValue
        /\ m \in {n, n - 1}
    BY WindowShape, ConfirmedLenType, HashUnitAssumption DEF ValueHasher, ConfirmedLen
  <2> QED
    BY <2>1 DEF HashedValue
<1>2. \A i, j \in 0 .. n - 1 : i < j => ts(i) <= ts(j)
  BY WindowSorted
<1>3. IF \/ from < ts(0)
         \/ n = 1 /\ ~h.ring_finished
         \/ \A i \in 0 .. n - 1 : ~inside(i)
        THEN answer = <<>>
        ELSE \E b, e \in 0 .. n :
               /\ b < e
               /\ \A i \in 0 .. n - 1 : inside(i) <=> i \in b .. e - 1
               /\ answer = <<Cut(h, b, e)>>
  <2>1. s + 1 \in Nat
    OBVIOUS
  <2> QED
    BY <2>1, QueryOf
<1> HIDE DEF n, m, ts, answer
<1>4. PICK b \in 0 .. n, e \in 0 .. n :
        /\ b < e
        /\ \A i \in 0 .. n - 1 : inside(i) <=> i \in b .. e - 1
        /\ answer = <<Cut(h, b, e)>>
  BY <1>3 DEF answer
<1>5. ts(0) <= from
  <2>1. ~(from < ts(0)) /\ 0 \in 0 .. n - 1
    BY <1>1, <1>3 DEF answer
  <2> QED
    BY <1>1, <2>1
<1>6. Elements(answer[1]) = {AtOffset(h, i) : i \in b .. e - 1}
  BY <1>1, <1>4, CutPoints
<1>7. ASSUME NEW q \in rows, from <= q.timestamp
      PROVE  OnPlateau(q, Elements(answer[1]))
  <2>1. \A i \in 0 .. m - 1 : ConfirmedPoints(h)[i] = AtOffset(h, i) /\ i \in 0 .. n - 1
    BY <1>1 DEF ConfirmedPoints, m
  <2>2. q.timestamp \in Nat /\ 0 \in 0 .. m - 1 /\ 0 \in 0 .. n - 1
    BY <1>1 DEF HashedValue
  <2>3. ConfirmedPoints(h)[0].timestamp <= q.timestamp
    <3>1. ts(0) <= q.timestamp /\ ConfirmedPoints(h)[0] = AtOffset(h, 0)
      BY <1>1, <1>5, <1>7, <2>1, <2>2
    <3> QED
      BY <3>1 DEF ts
  <2>4. PICK i \in 0 .. m - 1 :
          /\ ConfirmedPoints(h)[i].val = q.val
          /\ q.timestamp <= ConfirmedPoints(h)[i].timestamp
          /\ ConfirmedPoints(h)[i].timestamp <= s
          /\ i > 0 => ConfirmedPoints(h)[i - 1].timestamp < q.timestamp
    BY <2>3 DEF RingTells, Tells, m
  <2>5. /\ i \in 0 .. n - 1 /\ AtOffset(h, i).val = q.val
        /\ q.timestamp <= ts(i) /\ ts(i) <= s
        /\ i > 0 => i - 1 \in 0 .. n - 1 /\ ts(i - 1) < q.timestamp
    <3>1. i > 0 => i - 1 \in 0 .. m - 1
      BY <1>1
    <3> QED
      BY <2>1, <2>4, <3>1 DEF ts
  <2>6. inside(i)
    BY <1>1, <1>7, <2>2, <2>5
  <2>7. AtOffset(h, i) \in Elements(answer[1])
    BY <1>4, <1>6, <2>5, <2>6
  <2>8. ASSUME NEW j \in b .. e - 1, q.timestamp <= ts(j)
        PROVE  ts(i) <= ts(j)
    <3>1. j \in 0 .. n - 1
      BY <1>1, <1>4
    <3>2. CASE j < i
      <4>1. i > 0 /\ (j = i - 1 \/ j < i - 1)
        BY <1>1, <2>5, <3>1, <3>2
      <4>2. ts(j) <= ts(i - 1)
        BY <1>1, <1>2, <2>5, <3>1, <4>1
      <4> QED
        BY <1>1, <2>2, <2>5, <2>8, <3>1, <4>1, <4>2
    <3>3. CASE j = i
      BY <1>1, <2>5, <3>3
    <3>4. CASE i < j
      BY <1>2, <2>5, <3>1, <3>4
    <3> QED
      BY <1>1, <2>5, <3>1, <3>2, <3>3, <3>4
  <2>9. \A o \in Elements(answer[1]) :
          q.timestamp <= o.timestamp => AtOffset(h, i).timestamp <= o.timestamp
    BY <1>6, <2>8 DEF ts
  <2> QED
    BY <2>5, <2>7, <2>9 DEF ts, OnPlateau
<1> QED
  BY <1>5, <1>7 DEF ts, answer

(***************************************************************************)
(* A query up to now misses no saved row but those of the buffer, whatever *)
(* failed, was deleted or was restarted: for every set of devices, every   *)
(* capacity of the rings, every batch size and any number of events in one *)
(* second, as long as no tag is read twice in it (a device lists it once,  *)
(* and 0 is not among the seconds between two reads of one tag).           *)
(***************************************************************************)
THEOREM QueriesMissOnlyTheBufferHolds ==
  ASSUME 0 \notin Steps
  PROVE  Spec => []QueriesMissOnlyTheBuffer
<1>1. IndInv /\ QueryInv => QueriesMissOnlyTheBuffer
  <2> DEFINE answer(tag, from) == ReadMeasure(tag, from, now + 1)
  <2> SUFFICES ASSUME IndInv, QueryInv, Idle,
                      NEW tag \in value_units, NEW from \in 1 .. now,
                      NEW row \in Elements(saved) \cup Elements(measures),
                      row.id = tag, from <= row.value.timestamp
               PROVE  AnswerCovers(tag, row, answer(tag, from))
    BY DEF QueriesMissOnlyTheBuffer
  <2> DEFINE hashed == IF tag \in DOMAIN hash_map
                         THEN GetHashed(hash_map[tag], from, now + 1) ELSE <<>>
  <2>1. /\ now \in Nat /\ from \in Nat
        /\ Elements(measures) \subseteq Rows /\ Elements(saved) \subseteq Rows
        /\ \A r \in Rows : r.value.timestamp \in Nat
    <3>1. Elements(saved) \subseteq Rows
      BY DEF IndInv, TypeOK, Elements
    <3> QED
      BY <3>1, GivenTypes, SMTT(30) DEF QueryInv, IndInv, TypeOK, Rows, HashedValue
  <2>2. /\ tag \in Tags /\ ReadUpTo(tag) \in Nat /\ ReadUpTo(tag) <= now
        /\ \A r \in Elements(saved) : r.id = tag => r.value \in Given(tag)
    <3>1. tag \in Tags
      BY DEF IndInv, TypeOK
    <3> QED
      BY <3>1, NoElements, GivenTypes DEF Idle, Given, QueryInv
  <2>3. CASE hashed = <<>>
    <3> DEFINE points == {r.value : r \in {r \in Elements(measures) :
                            /\ r.id = tag
                            /\ from <= r.value.timestamp /\ r.value.timestamp <= now + 1}}
    <3>1. answer(tag, from) = [source |-> "mysql", points |-> points]
      BY <2>3, Zenon DEF ReadMeasure
    <3>2. row \in Elements(measures) \/ row \in Elements(buff)
      BY DEF IndInv, NothingLost
    <3>3. CASE row \in Elements(measures)
      <4>1. row.value.timestamp <= now
        <5>1. row.value.timestamp <= ReadUpTo(tag) /\ row.value.timestamp \in Nat
          BY <2>1, <3>3 DEF QueryInv, TableInv
        <5> QED
          BY <2>1, <2>2, <5>1
      <4>2. row.value \in points
        BY <2>1, <3>3, <4>1
      <4> HIDE DEF points
      <4>3. row.value.timestamp \in Nat
        BY <2>1, <3>3
      <4> QED
        BY <3>1, <4>2, <4>3 DEF AnswerCovers
    <3>4. CASE row \in Elements(buff)
      <4> HIDE DEF points
      <4> QED
        BY <3>1, <3>4 DEF AnswerCovers
    <3> QED
      BY <3>2, <3>3, <3>4
  <2>4. CASE hashed # <<>>
    <3>1. tag \in DOMAIN hash_map /\ hashed = GetHashed(hash_map[tag], from, now + 1)
      BY <2>4
    <3>2. answer(tag, from) = [source |-> "ram", points |-> Elements(hashed[1])]
      BY <2>4, Zenon DEF ReadMeasure
    <3>3. /\ hash_map[tag] \in ValueHasher /\ Geometry(hash_map[tag])
          /\ Given(tag) \in SUBSET HashedValue
          /\ RingTells(hash_map[tag], Given(tag), now)
      <4>1. /\ hash_map[tag] \in ValueHasher /\ Geometry(hash_map[tag])
            /\ Given(tag) \in SUBSET HashedValue
            /\ RingTells(hash_map[tag], Given(tag), ReadUpTo(tag))
        BY <3>1, GivenTypes DEF QueryInv, RingsInv
      <4>2. RingTellsNext(hash_map[tag], Given(tag), now)
        BY <2>1, <2>2, <4>1, LaterTells
      <4> QED
        BY <4>1, <4>2 DEF RingTellsNext
    <3> DEFINE h == hash_map[tag]
               rows == Given(tag)
    <3>4. /\ AtOffset(h, 0).timestamp <= from
          /\ \A q \in rows :
               from <= q.timestamp => OnPlateau(q, Elements(GetHashed(h, from, now + 1)[1]))
      <4> HIDE DEF h, rows
      <4>1. /\ h \in ValueHasher /\ Geometry(h) /\ rows \in SUBSET HashedValue
            /\ RingTells(h, rows, now) /\ GetHashed(h, from, now + 1) # <<>>
        BY <2>4, <3>1, <3>3 DEF h, rows
      <4> QED
        BY <2>1, <4>1, RingAnswers
    <3>5. row.value \in Given(tag)
      <4> SUFFICES ASSUME row \in Elements(measures), row.value \notin Given(tag) PROVE FALSE
        BY <2>2
      <4>1. row.value.timestamp < AtOffset(h, 0).timestamp
        BY <3>1 DEF QueryInv, TableInv
      <4>2. AtOffset(h, 0).timestamp \in Nat
        <5>1. WindowLen(h) \in 1 .. Capacity /\ Capacity \in Nat
              /\ \A j \in 0 .. WindowLen(h) - 1 : AtOffset(h, j) \in HashedValue
          BY <3>3, WindowShape, HashUnitAssumption DEF ValueHasher
        <5> QED
          BY <5>1 DEF HashedValue
      <4> QED
        BY <2>1, <3>4, <4>1, <4>2
    <3> HIDE DEF hashed, h, rows
    <3>6. OnPlateau(row.value, Elements(hashed[1]))
      BY <3>1, <3>4, <3>5 DEF h, rows
    <3> QED
      BY <3>2, <3>6 DEF AnswerCovers, OnPlateau
  <2> QED
    BY <2>3, <2>4
<1> QED
  BY Invariance, QueryInvariance, <1>1, PTL
=============================================================================
