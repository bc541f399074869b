----------------------------- MODULE ValueHasher -----------------------------
(***************************************************************************)
(* The life of one hasher of hash_master.rs: the first sample of a tag     *)
(* creates it, every later one goes through add, and the points that add   *)
(* returns are handed to save_value, before first.                         *)
(*                                                                         *)
(* Samples of a tag arrive in the order they were taken (one node task, one *)
(* channel after another); Steps is how many whole seconds may lie between *)
(* two of them.                                                            *)
(***************************************************************************)
EXTENDS RingHistory

CONSTANTS Start,    \* the time of the first sample
          MaxTime   \* bound of the model: no sample after this time

ASSUME ValueHasherAssumption ==
  /\ Start \in Nat \ {0}
  /\ MaxTime \in Nat /\ Start <= MaxTime

VARIABLES
  hasher,      \* the ValueHasher of the tag
  log,         \* the points given to save_value, in order
  sample,      \* the last sample added
  last_good    \* the time of the last successful read; Start - 1 when none

vars == <<hasher, log, sample, last_good>>

TypeOK ==
  /\ hasher \in ValueHasher
  /\ log \in Seq(HashedValue)
  /\ sample \in HashedValue
  /\ last_good \in Nat

\* write_measure, Entry::Vacant: the first sample is saved as it is.
Init ==
  \E v \in Measures :
    /\ hasher = NewHasher(v, Start)
    /\ log = <<Point(v, Start)>>
    /\ sample = Point(v, Start)
    /\ last_good = IF v = Fail THEN Start - 1 ELSE Start

\* write_measure, Entry::Occupied.
AddSample(v, t) ==
  LET result == Add(hasher, v, t)
  IN  /\ hasher' = result.hasher
      /\ log' = log \o result.before \o result.now
      /\ sample' = Point(v, t)
      /\ last_good' = IF v = Fail THEN last_good ELSE t

Next ==
  \E v \in Measures, d \in Steps :
    /\ sample.timestamp + d <= MaxTime
    /\ AddSample(v, sample.timestamp + d)

Spec == Init /\ [][Next]_vars

-----------------------------------------------------------------------------
LastRow == log[Len(log)]
HeadSlot == hasher.hashed_values[hasher.head]
Saved == {log[i] : i \in 1 .. Len(log)}

\* The window without the slot of a failure that is not yet confirmed.
ConfirmedWindow == SubSeq(Window(hasher), 1, ConfirmedLen(hasher))

(***************************************************************************)
(* The indices tell the truth about the ring: until it has been filled,    *)
(* tail stays on slot 0 and current counts the slots behind head; from     *)
(* then on tail is one slot ahead of head, or two after noise was rolled   *)
(* back.  (advance, go_ahead, roll_back, add_after_noice)                  *)
(***************************************************************************)
RingGeometry == Geometry(hasher)

(***************************************************************************)
(* From tail to head the timestamps do not fall: the precondition of the   *)
(* binary search in lower_bound_ring, across wraps, noise and failures.    *)
(***************************************************************************)
WindowChronological ==
  \A i \in 1 .. WindowLen(hasher) - 1 :
    Window(hasher)[i].timestamp <= Window(hasher)[i + 1].timestamp

(***************************************************************************)
(* get_hashed is the filter it stands for: when it answers, the answer is  *)
(* every point of the window in [from, to) in order; it declines only a    *)
(* query that is empty, begins before the window, or that no point of the  *)
(* window falls in, and for a ring that still has a single slot.           *)
(***************************************************************************)
QueryExact ==
  LET w == Window(hasher)
  IN  \A from, to \in 0 .. MaxTime + 1 :
        LET inside(i) == from <= w[i].timestamp /\ w[i].timestamp < to
            answer    == GetHashed(hasher, from, to)
        IN  IF \/ from < w[1].timestamp
               \/ WindowLen(hasher) = 1 /\ ~hasher.ring_finished
               \/ \A i \in 1 .. WindowLen(hasher) : ~inside(i)
              THEN answer = <<>>
              ELSE \E first, last \in 1 .. WindowLen(hasher) :
                     /\ \A i \in 1 .. WindowLen(hasher) : inside(i) <=> i \in first .. last
                     /\ answer = <<[i \in 1 .. last + 1 - first |-> w[first + i - 1]]>>

(***************************************************************************)
(* A failed read shorter than FAILURE_DELTA is noise: outside of it, every *)
(* f64::MIN a query can return is a loss that was saved, never the slot    *)
(* roll_back left behind.  (roll_back's comment; the noise-gap test)       *)
(***************************************************************************)
NoNoiseServed ==
  \A i \in 1 .. Len(ConfirmedWindow) :
    ConfirmedWindow[i].val = Fail => ConfirmedWindow[i] \in Saved

(***************************************************************************)
(* RAM never forgets what the database was given: each saved point that is *)
(* not older than the window lies on a plateau of the window, that is, the *)
(* first confirmed slot not before it has its value.                       *)
(***************************************************************************)
SavedInWindow ==
  LET w == ConfirmedWindow
  IN  \A p \in Saved :
        (Len(w) > 0 /\ w[1].timestamp <= p.timestamp) =>
          \E i \in 1 .. Len(w) :
            /\ w[i].val = p.val /\ p.timestamp <= w[i].timestamp
            /\ i > 1 => w[i - 1].timestamp < p.timestamp

(***************************************************************************)
(* ... and the database is given what RAM holds: the last point of every   *)
(* plateau of the window that ended (the next slot has another value) was  *)
(* saved.  (is_resolving_duplicate, current_and_previous_val)              *)
(***************************************************************************)
PlateauEndsSaved ==
  \A i \in 1 .. Len(ConfirmedWindow) - 1 :
    ConfirmedWindow[i].val # ConfirmedWindow[i + 1].val => ConfirmedWindow[i] \in Saved

(***************************************************************************)
(* RAM and table tell one history, from the oldest point of the ring on:   *)
(* the three of them together.  At the time of every row both have its     *)
(* value, no end of a plateau is in one only, and a loss in the ring is a  *)
(* row.  A query need not get the same points from both: the slot of a     *)
(* plateau moves forward with its samples (add_normal), so that a range    *)
(* that ends inside a silent plateau has the row of its start from the     *)
(* table and nothing of it from the ring.  (HashUnit::add, save_value)     *)
(***************************************************************************)
RingMatchesTable == NoNoiseServed /\ SavedInWindow /\ PlateauEndsSaved

(***************************************************************************)
(* The saved rows tell the current value: after a successful read the last *)
(* row has the value just read, and after a confirmed failure it marks the *)
(* loss, however many noises and heartbeats lie between.                   *)
(***************************************************************************)
LogTellsTheValue ==
  /\ sample.val # Fail => LastRow.val = sample.val
  /\ hasher.state = "FailReported" => LastRow.val = Fail

(***************************************************************************)
(* A stable value is confirmed by a heartbeat: after a successful read the *)
(* last row is at most STABLE_DELTA old.  (README.en.md, Deduplication:    *)
(* "sends a heartbeat record once every 5 minutes")                        *)
(***************************************************************************)
HeartbeatKept ==
  sample.val # Fail => sample.timestamp - LastRow.timestamp <= StableDelta

(***************************************************************************)
(* Unchanged values are suppressed: of three consecutive rows with one     *)
(* value the first and the last are more than STABLE_DELTA apart.          *)
(***************************************************************************)
UnchangedSuppressed ==
  \A i \in 1 .. Len(log) - 2 :
    (log[i].val = log[i + 1].val /\ log[i + 1].val = log[i + 2].val) =>
      log[i + 2].timestamp - log[i].timestamp >
        IF log[i].val = Fail THEN FailureDelta ELSE StableDelta

(***************************************************************************)
(* Data loss is marked only when nothing was read for more than            *)
(* FAILURE_DELTA.                                                         *)
(***************************************************************************)
LossMarkedLate ==
  [][\A i \in Len(log) + 1 .. Len(log') :
       log'[i].val = Fail => log'[i].timestamp - last_good > FailureDelta]_vars

(***************************************************************************)
(* ... and it is marked in time: a tag that was last read more than        *)
(* FAILURE_DELTA and one polling gap ago has the mark as its last row.     *)
(***************************************************************************)
LossMarkedInTime ==
  (sample.val = Fail /\ LastRow.val # Fail) =>
    \E d \in Steps : sample.timestamp - last_good <= FailureDelta + d

(***************************************************************************)
(* The inductive invariant behind the theorems: InStep of the hasher with  *)
(* the last row, and the times of the last successful read.                *)
(***************************************************************************)
LogInv ==
  /\ log # <<>>
  /\ InStep(hasher, LastRow, sample.timestamp)
  /\ sample.val # Fail => hasher.state = "Normal" /\ LastRow.val = sample.val
  /\ last_good <= sample.timestamp
  /\ hasher.state = "InFail" => last_good <= HeadSlot.timestamp

IndInv == TypeOK /\ RingGeometry /\ LogInv /\ HeartbeatKept

(***************************************************************************)
(* What the rows say beyond that, and the failure that is not yet reported. *)
(***************************************************************************)
RepeatDelta(v) == IF v = Fail THEN FailureDelta ELSE StableDelta

\* The rows are in order, and if the last repeats the one before it does so late.
RowsInv ==
  /\ \A i \in 1 .. Len(log) - 1 : log[i].timestamp <= log[i + 1].timestamp
  /\ (Len(log) > 1 /\ log[Len(log) - 1].val = LastRow.val) =>
       LastRow.timestamp - log[Len(log) - 1].timestamp > RepeatDelta(LastRow.val)
  /\ UnchangedSuppressed

\* A failure that waits began one polling gap after the last successful read.
WaitInv ==
  /\ hasher.state = "Normal" =>
       /\ sample.val = Fail => LastRow.val = Fail
       /\ LastRow.val # Fail => last_good = sample.timestamp
  /\ hasher.state = "InFail" =>
       /\ sample.timestamp - HeadSlot.timestamp <= FailureDelta
       /\ LastRow.val # Fail => \E d \in Steps : HeadSlot.timestamp - last_good <= d

(***************************************************************************)
(* RingMatchesTable and WindowChronological, in the form that every call   *)
(* of add preserves.                                                       *)
(***************************************************************************)
TellsInv ==
  /\ Tells(ConfirmedPoints(hasher), ConfirmedLen(hasher), Saved, sample.timestamp)
  /\ hasher.state = "FailReported" => LastConfirmed(hasher).val = Fail

HistoryInv == IndInv /\ RowsInv /\ WaitInv /\ TellsInv

(***************************************************************************)
(* The rows of the tag are a step function as TagHistory describes it.     *)
(***************************************************************************)
History == INSTANCE TagHistory WITH Time <- 0 .. MaxTime
ImplementsTagHistory == History!Spec
=============================================================================
