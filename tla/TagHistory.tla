------------------------------ MODULE TagHistory ------------------------------
(***************************************************************************)
(* What the hasher of one tag promises to the table measures: the rows of  *)
(* the tag, in the order they are saved, are a step function that never    *)
(* goes back in time, never stores the same row twice, repeats a value     *)
(* only as a heartbeat or as the end of its plateau, and opens a new       *)
(* plateau together with at most the end of the old one.                   *)
(***************************************************************************)
EXTENDS Integers, Sequences

CONSTANTS
  Values,        \* the values of successful reads
  Fail,          \* the value that marks lost data
  StableDelta,   \* a good value repeats only when its row is older than this
  FailureDelta,  \* a loss mark repeats only when its row is older than this
  Time           \* the timestamps

VARIABLE log     \* the rows saved for the tag, in order

Measures == Values \cup {Fail}
Row(v, t) == [val |-> v, timestamp |-> t]
LastRow == log[Len(log)]
RepeatDelta == IF LastRow.val = Fail THEN FailureDelta ELSE StableDelta

Init == \E v \in Measures, t \in Time : log = <<Row(v, t)>>

\* The value held: one more row once the last one is old enough.
Heartbeat(t) ==
  /\ t - LastRow.timestamp > RepeatDelta
  /\ log' = Append(log, Row(LastRow.val, t))

\* The value changed at t.
Change(v, t) ==
  /\ v # LastRow.val
  /\ t > LastRow.timestamp
  /\ log' = Append(log, Row(v, t))

\* The value held until e and changed at t: both points are saved, e first.
\* The end of a loss is never saved.
ChangeAfterPlateau(v, e, t) ==
  /\ v # LastRow.val /\ LastRow.val # Fail
  /\ LastRow.timestamp < e /\ e < t
  /\ log' = log \o <<Row(LastRow.val, e), Row(v, t)>>

Next ==
  \E t \in Time :
    \/ Heartbeat(t)
    \/ \E v \in Measures : Change(v, t)
    \/ \E v \in Measures, e \in Time : ChangeAfterPlateau(v, e, t)

Spec == Init /\ [][Next]_log
=============================================================================
