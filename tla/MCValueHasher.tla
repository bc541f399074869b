---------------------------- MODULE MCValueHasher ----------------------------
(***************************************************************************)
(* A hasher small enough to be explored with every stream of samples: the  *)
(* ring wraps, and heartbeats, noise and confirmed failures meet the wrap. *)
(***************************************************************************)
EXTENDS ValueHasher

\* Polls one or two seconds apart: two polls reach FailureDelta, two or more pass
\* it, and a heartbeat takes three to four.
PollingSteps == {1, 2}
=============================================================================
