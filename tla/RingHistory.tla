----------------------------- MODULE RingHistory -----------------------------
(***************************************************************************)
(* How the ring of a tag and the rows that were saved for it agree: the    *)
(* parts of the invariants of ValueHasher, which has one tag and the rows  *)
(* it hands out, and of MeasureMaster, which has many and a table.         *)
(***************************************************************************)
EXTENDS HashUnit

CONSTANT Steps    \* seconds from one sample of a tag to the next

ASSUME RingHistoryAssumption == Steps \subseteq Nat

(***************************************************************************)
(* The slot of the plateau under way (head, or the slot before it while a  *)
(* failure is unconfirmed) continues the last row, silently when           *)
(* is_resolving_duplicate is set.                                          *)
(***************************************************************************)
Continues(h, p, row, ts) ==
  /\ p.val = row.val
  /\ h.last_emitted_ts = row.timestamp
  /\ p.timestamp <= ts
  /\ IF h.is_resolving_duplicate
       THEN /\ row.timestamp <= p.timestamp /\ row.val # Fail
            /\ 0 \notin Steps => row.timestamp # p.timestamp
       ELSE row.timestamp = p.timestamp

InStep(h, row, ts) ==
  LET slot == h.hashed_values[h.head]
      before == h.hashed_values[SlotBefore(h.head)]
  IN  CASE h.state = "Normal" -> Continues(h, slot, row, ts)
        [] h.state = "InFail" ->
             /\ Continues(h, before, row, ts)
             /\ slot.val = Fail
             /\ before.timestamp <= slot.timestamp /\ slot.timestamp <= ts
        [] h.state = "FailReported" ->
             /\ row.val = Fail /\ row.timestamp <= ts
             /\ ~h.is_resolving_duplicate

(***************************************************************************)
(* The history that the points w[0] .. w[n - 1] of a window tell, up to the *)
(* time s, is the one the saved points tell.                                *)
(***************************************************************************)
Tells(w, n, saved, s) ==
  /\ \A i, j \in 0 .. n - 1 :
       i < j => /\ w[i].timestamp <= w[j].timestamp
                /\ 0 \notin Steps => w[i].timestamp < w[j].timestamp
  /\ \A i \in 0 .. n - 1 : 0 < w[i].timestamp /\ w[i].timestamp <= s
  /\ \A i \in 0 .. n - 1 : w[i].val = Fail => w[i] \in saved
  /\ \A i \in 0 .. n - 2 : w[i].val # w[i + 1].val => w[i] \in saved
  /\ \A p \in saved : p.timestamp <= s
  /\ 0 \notin Steps =>
       \A p \in saved :
         w[0].timestamp <= p.timestamp =>
           \E i \in 0 .. n - 1 :
             /\ w[i].val = p.val /\ p.timestamp <= w[i].timestamp
             /\ i > 0 => w[i - 1].timestamp < p.timestamp

ConfirmedPoints(h) == [i \in 0 .. ConfirmedLen(h) - 1 |-> AtOffset(h, i)]

\* All of it, for the points saved of a tag and the time of its last sample.
RingTells(h, saved, s) ==
  /\ \E row \in saved : InStep(h, row, s)
  /\ Tells(ConfirmedPoints(h), ConfirmedLen(h), saved, s)
  /\ h.state = "FailReported" => LastConfirmed(h).val = Fail
=============================================================================
