---------------------------- MODULE MeasureMaster ----------------------------
(***************************************************************************)
(* measure_master of db/hasher/hash_master.rs: the task that owns the      *)
(* hasher of every tag and the buffer of rows on their way to MySQL        *)
(* (DbMeasureUnit), together with what happens to it from outside: values  *)
(* are deleted by other tasks of the database worker, MySQL fails or       *)
(* answers too late, and the program ends and is started again.            *)
(*                                                                         *)
(* The task handles one message at a time.  Every await of save_value is a *)
(* step, because deletions of other tasks run in between.                  *)
(***************************************************************************)
EXTENDS RingHistory

CONSTANTS
  Tags,        \* ids of value_units
  Logging,     \* the tags with is_logging set
  Devices,     \* the measures of a DeviceEvent: sequences of tags, each tag once
  Gaps,        \* whole seconds that may lie between two DeviceEvents
  BatchSize,   \* save_value flushes when the buffer is longer than this (20)
  MaxTime,     \* bound of the model: no event after this time
  MaxFaults,   \* bound of the model: flushes that fail before the commit
  MaxLate,     \* bound of the model: commits whose answer never arrives
  MaxCrashes   \* bound of the model: ends of the program

ASSUME MeasureMasterAssumption ==
  /\ Logging \subseteq Tags
  /\ Devices \subseteq Seq(Tags)
  /\ \A device \in Devices : \A i, j \in DOMAIN device : device[i] = device[j] => i = j
  /\ Gaps \subseteq Nat
  /\ {BatchSize, MaxTime, MaxFaults, MaxLate, MaxCrashes} \subseteq Nat /\ MaxTime > 0

VARIABLES
  hash_map,      \* tag -> its ValueHasher, for the tags seen since the start
  buff,          \* DbMeasureUnit.buff
  inbox,         \* measures of the current DeviceEvent still to be written
  unsaved,       \* points returned by add and not yet given to save_value
  flushing,      \* save_value is waiting for flush
  now,           \* the measure_time of the current event
  read_at,       \* history: when each tag was last read; 0 when it was not
  measures,      \* the table measures: its rows by id
  next_id,       \* AUTO_INCREMENT of the table
  first_id,      \* its value when the program was started
  value_units,   \* the tags the table value_units holds
  saved,         \* every row given to save_value since the start
  faults         \* what has gone wrong: flushes failed, commits late, crashes,
                 \* and whether the last flush left the buffer as it was

workerVars == <<hash_map, buff, inbox, unsaved, flushing>>
tableVars == <<measures, next_id, first_id>>
vars == <<workerVars, now, read_at, tableVars, value_units, saved, faults>>

\* ForFlush, and a row of the table.
Row(tag, point) == [id |-> tag, value |-> point]
Rows == [id : Tags, value : HashedValue]

Ids(rows) == {rows[i].id : i \in DOMAIN rows}
Elements(rows) == {rows[i] : i \in DOMAIN rows}

Faults ==
  [failed : 0 .. MaxFaults, late : 0 .. MaxLate, crashes : 0 .. MaxCrashes, kept : BOOLEAN]

NoHashers == [tag \in {} |-> {}]
NoRows == [n \in {} |-> {}]

TypeOK ==
  /\ DOMAIN hash_map \subseteq Logging
  /\ \A tag \in DOMAIN hash_map : hash_map[tag] \in ValueHasher
  /\ buff \in Seq(Rows) /\ saved \in Seq(Rows)
  /\ next_id \in Nat \ {0} /\ first_id \in 1 .. next_id
  /\ DOMAIN measures \subseteq 1 .. next_id - 1 /\ Elements(measures) \subseteq Rows
  /\ inbox \in Seq(Tags)
  /\ unsaved \in Seq(HashedValue) /\ Len(unsaved) <= 2
  /\ flushing \in BOOLEAN
  /\ now \in 1 .. MaxTime /\ read_at \in [Tags -> 0 .. now]
  /\ value_units \subseteq Tags
  /\ faults \in Faults

Init ==
  /\ hash_map = NoHashers
  /\ buff = <<>> /\ inbox = <<>> /\ unsaved = <<>>
  /\ flushing = FALSE
  /\ now = 1 /\ read_at = [tag \in Tags |-> 0]
  /\ measures = NoRows /\ next_id = 1 /\ first_id = 1
  /\ saved = <<>>
  /\ value_units = Tags
  /\ faults = [failed |-> 0, late |-> 0, crashes |-> 0, kept |-> FALSE]

\* The task is at recv, the only place where it takes the next message.
Idle == inbox = <<>> /\ unsaved = <<>> /\ ~flushing

-----------------------------------------------------------------------------
(* The messages.                                                             *)

\* Event::DeviceEvent: the measures of one poll of one device.  Devices are polled in
\* the same second as others; Steps is what may lie between two polls of one.
Receive ==
  /\ Idle
  /\ \E d \in Gaps, device \in Devices :
       /\ now + d <= MaxTime /\ now' = now + d
       /\ \A tag \in Elements(device) : read_at[tag] > 0 => now' - read_at[tag] \in Steps
       /\ inbox' = device
       /\ read_at' = [tag \in Tags |-> IF tag \in Elements(device) THEN now' ELSE read_at[tag]]
  /\ UNCHANGED <<hash_map, buff, unsaved, flushing, tableVars, value_units, saved, faults>>

\* write_measure, one turn of its loop: continue for a value that is not logged,
\* a new hasher for the first value of a tag, add for every other.
AddMeasure(v) ==
  /\ inbox # <<>> /\ unsaved = <<>> /\ ~flushing
  /\ LET tag == Head(inbox)
         result == IF tag \in DOMAIN hash_map
                     THEN Add(hash_map[tag], v, now)
                     ELSE CurrentVal(NewHasher(v, now))
     IN  IF tag \notin Logging
           THEN inbox' = Tail(inbox) /\ UNCHANGED <<hash_map, unsaved>>
           ELSE /\ hash_map' = [id \in DOMAIN hash_map \cup {tag} |->
                                  IF id = tag THEN result.hasher ELSE hash_map[id]]
                /\ unsaved' = result.before \o result.now
                /\ inbox' = IF unsaved' = <<>> THEN Tail(inbox) ELSE inbox
  /\ UNCHANGED <<buff, flushing, now, read_at, tableVars, value_units, saved, faults>>

\* Mutant: the second point of a measure is saved for the next measure.
SaveValueNextMeasure ==
  /\ unsaved # <<>> /\ ~flushing
  /\ LET row == Row(Head(inbox), Head(unsaved))
     IN  buff' = Append(buff, row) /\ saved' = Append(saved, row)
  /\ flushing' = (Len(buff') > BatchSize)
  /\ unsaved' = Tail(unsaved)
  /\ inbox' = Tail(inbox)
  /\ UNCHANGED <<hash_map, now, read_at, tableVars, value_units, faults>>

\* save_value up to the flush: push, and wait for flush when the buffer is full.
SaveValue ==
  /\ unsaved # <<>> /\ ~flushing
  /\ LET row == Row(Head(inbox), Head(unsaved))
     IN  buff' = Append(buff, row) /\ saved' = Append(saved, row)
  /\ flushing' = (Len(buff') > BatchSize)
  /\ unsaved' = Tail(unsaved)
  /\ inbox' = IF unsaved' = <<>> THEN Tail(inbox) ELSE inbox
  /\ UNCHANGED <<hash_map, now, read_at, tableVars, value_units, faults>>

-----------------------------------------------------------------------------
(* The outcomes of flush.  The table refuses a batch with a value_id that is *)
(* not in value_units: measures_ibfk_1 of init_database.rs.                  *)

Insertable == Ids(buff) \subseteq value_units

\* The rows of the buffer get the next ids of the table.
Insert ==
  /\ measures' = [n \in DOMAIN measures \cup (next_id .. next_id + Len(buff) - 1) |->
                    IF n < next_id THEN measures[n] ELSE buff[n - next_id + 1]]
  /\ next_id' = next_id + Len(buff)
  /\ UNCHANGED first_id

\* Mutant: rows that were inserted stay in the buffer.
FlushCommitsKeeps ==
  /\ flushing /\ Insertable
  /\ Insert
  /\ flushing' = FALSE
  /\ faults' = [faults EXCEPT !.kept = FALSE]
  /\ UNCHANGED <<hash_map, buff, inbox, unsaved, now, read_at, value_units, saved>>

FlushCommits ==
  /\ flushing /\ Insertable
  /\ Insert
  /\ buff' = <<>>
  /\ flushing' = FALSE
  /\ faults' = [faults EXCEPT !.kept = FALSE]
  /\ UNCHANGED <<hash_map, inbox, unsaved, now, read_at, value_units, saved>>

\* Mutant: the buffer is given up with the transaction.
FlushFailsDrops ==
  /\ flushing
  /\ \/ ~Insertable /\ UNCHANGED faults
     \/ faults.failed < MaxFaults /\ faults' = [faults EXCEPT !.failed = @ + 1]
  /\ buff' = <<>>
  /\ flushing' = FALSE
  /\ UNCHANGED <<hash_map, inbox, unsaved, now, read_at, tableVars, value_units, saved>>

\* begin, the INSERT or the commit failed, or the 10 seconds of save_value ran out
\* before the commit: the transaction is gone and the buffer is kept.
FlushFails ==
  /\ flushing
  /\ \/ ~Insertable /\ faults' = [faults EXCEPT !.kept = TRUE]
     \/ faults.failed < MaxFaults /\ faults' = [faults EXCEPT !.failed = @ + 1, !.kept = TRUE]
  /\ flushing' = FALSE
  /\ UNCHANGED <<hash_map, buff, inbox, unsaved, now, read_at, tableVars, value_units, saved>>

\* MySQL committed, but the answer was lost or came after the 10 seconds.
FlushCommitsLate ==
  /\ flushing /\ Insertable
  /\ faults.late < MaxLate
  /\ faults' = [faults EXCEPT !.late = @ + 1, !.kept = TRUE]
  /\ Insert
  /\ flushing' = FALSE
  /\ UNCHANGED <<hash_map, buff, inbox, unsaved, now, read_at, value_units, saved>>

-----------------------------------------------------------------------------
(* What happens around the task.                                             *)

\* delete_value_with_transaction: the value and its measures leave together.
\* Nobody tells measure_master.
DeleteValue(tag) ==
  /\ tag \in value_units
  /\ value_units' = value_units \ {tag}
  /\ measures' = [n \in {m \in DOMAIN measures : measures[m].id # tag} |-> measures[n]]
  /\ UNCHANGED <<workerVars, now, read_at, next_id, first_id, saved, faults>>

\* The program ends (or main.rs starts its tasks anew, which closes the channel of
\* measure_master) and starts again with an empty hash_map and buffer.
Restart ==
  /\ faults.crashes < MaxCrashes
  /\ faults' = [faults EXCEPT !.crashes = @ + 1, !.kept = FALSE]
  /\ hash_map' = NoHashers
  /\ buff' = <<>> /\ inbox' = <<>> /\ unsaved' = <<>>
  /\ flushing' = FALSE
  /\ saved' = <<>>
  /\ first_id' = next_id
  /\ UNCHANGED <<now, read_at, measures, next_id, value_units>>

Next ==
  \/ Receive
  \/ \E v \in Measures : AddMeasure(v)
  \/ SaveValue
  \/ FlushCommits
  \/ FlushFails
  \/ FlushCommitsLate
  \/ \E tag \in Tags : DeleteValue(tag)
  \/ Restart

Spec == Init /\ [][Next]_vars

-----------------------------------------------------------------------------
(* read_measure for one tag.  It changes nothing; the rows of the table come *)
(* in the order of their times, so a set stands for them.                    *)

ReadMeasure(tag, from, to) ==
  LET hashed == IF tag \in DOMAIN hash_map THEN GetHashed(hash_map[tag], from, to) ELSE <<>>
      inRange(row) == /\ row.id = tag
                      /\ from <= row.value.timestamp /\ row.value.timestamp <= to
  IN  IF hashed # <<>>
        THEN [source |-> "ram", points |-> Elements(hashed[1])]
        ELSE [source |-> "mysql",
              points |-> {row.value : row \in {r \in Elements(measures) : inRange(r)}}]

-----------------------------------------------------------------------------
(***************************************************************************)
(* A row given to save_value is not lost while its tag exists: failed and  *)
(* late flushes keep it in the buffer, and it leaves the buffer only for   *)
(* the table.  A restart alone forgets rows, those of the buffer.          *)
(***************************************************************************)
NothingLost ==
  \A row \in Elements(saved) :
    row.id \in value_units => row \in Elements(measures) \cup Elements(buff)

(***************************************************************************)
(* The table has the rows in the order they were saved and each of them    *)
(* once, without those of deleted tags, and the buffer continues it, as    *)
(* long as no commit was answered late: the i-th row saved since the start *)
(* has the i-th id given out since then.  (buff.clear after the commit,    *)
(* the retry by the next save_value)                                       *)
(***************************************************************************)
StoredOnceInOrder ==
  faults.late = 0 =>
    LET stored == next_id - first_id
        id(i)  == first_id + i - 1
    IN  /\ Len(saved) = stored + Len(buff)
        /\ \A i \in 1 .. Len(buff) : buff[i] = saved[stored + i]
        /\ \A i \in 1 .. stored :
             IF saved[i].id \in value_units
               THEN id(i) \in DOMAIN measures /\ measures[id(i)] = saved[i]
               ELSE id(i) \notin DOMAIN measures

(***************************************************************************)
(* No more than BatchSize rows wait in RAM unless MySQL refuses them: that *)
(* is what a crash can cost.  (save_value: buff.len() > 20)                *)
(***************************************************************************)
BufferBounded == Len(buff) > BatchSize => flushing \/ faults.kept

(***************************************************************************)
(* A row of a deleted tag in the buffer stops all storage: the table gets  *)
(* no row of any tag again until the program is restarted.                 *)
(***************************************************************************)
PoisonStays ==
  [][(~Insertable /\ faults'.crashes = faults.crashes) =>
       /\ Elements(measures') \subseteq Elements(measures)
       /\ Len(buff') >= Len(buff)]_vars

(***************************************************************************)
(* A query up to now misses no row but those of the buffer: each row saved *)
(* or stored for a tag from `from` on is in the answer, or lies on a       *)
(* plateau of the answer (the next point has its value), or is still in    *)
(* the buffer while the table answers.  (read_measure: RAM first, then     *)
(* MySQL)                                                                  *)
(***************************************************************************)
AnswerCovers(tag, row, answer) ==
  \/ \E p \in answer.points :
       /\ p.val = row.value.val /\ row.value.timestamp <= p.timestamp
       /\ \A q \in answer.points :
            row.value.timestamp <= q.timestamp => p.timestamp <= q.timestamp
  \/ answer.source = "mysql" /\ row \in Elements(buff)

QueriesMissOnlyTheBuffer ==
  Idle =>
    \A tag \in value_units, from \in 1 .. now :
      LET answer == ReadMeasure(tag, from, now + 1)
      IN  \A row \in Elements(saved) \cup Elements(measures) :
            (row.id = tag /\ from <= row.value.timestamp) => AnswerCovers(tag, row, answer)

(***************************************************************************)
(* The inductive invariant behind the theorems: the indices of every       *)
(* hasher fit, so that add keeps its type, and the measure whose points    *)
(* are being saved is still the first of the inbox.                        *)
(***************************************************************************)
IndInv ==
  /\ TypeOK
  /\ \A tag \in DOMAIN hash_map : Geometry(hash_map[tag])
  /\ unsaved # <<>> => inbox # <<>>
  /\ NothingLost
  /\ BufferBounded

(***************************************************************************)
(* ... and behind QueriesMissOnlyTheBuffer, when no tag is read twice in   *)
(* one second: the ring of each tag tells what was saved of it, and what   *)
(* the table has of the tag from before the start is older than the ring.  *)
(***************************************************************************)
Waiting == Elements(IF unsaved = <<>> THEN inbox ELSE Tail(inbox))

\* The time up to which the tag was read.
ReadUpTo(tag) == IF tag \in Waiting THEN now - 1 ELSE read_at[tag]

\* What add has returned for the tag since the start.
Given(tag) ==
  {row.value : row \in {r \in Elements(saved) : r.id = tag}}
    \cup (IF inbox # <<>> /\ Head(inbox) = tag THEN Elements(unsaved) ELSE {})

InboxInv ==
  /\ \A i, j \in DOMAIN inbox : inbox[i] = inbox[j] => i = j
  /\ \A tag \in Elements(inbox) : read_at[tag] = now
  /\ unsaved # <<>> => Head(inbox) \in DOMAIN hash_map

TableInv ==
  /\ Elements(buff) \subseteq Elements(saved)
  /\ \A row \in Elements(saved) : row.id \in DOMAIN hash_map
  /\ \A row \in Elements(measures) :
       /\ row.value.timestamp <= ReadUpTo(row.id)
       /\ row.id \in DOMAIN hash_map =>
            \/ row.value \in Given(row.id)
            \/ row.value.timestamp < AtOffset(hash_map[row.id], 0).timestamp

RingsInv == \A tag \in DOMAIN hash_map : RingTells(hash_map[tag], Given(tag), ReadUpTo(tag))

QueryInv == InboxInv /\ TableInv /\ RingsInv
=============================================================================
