---------------------------- MODULE MCReadMaster ----------------------------
(***************************************************************************)
(* One gateway with up to two devices, whose configuration changes while   *)
(* it is polled.                                                           *)
(***************************************************************************)
EXTENDS ReadMaster

CONSTANTS d1, d2, ip1, ip2

Device(id, active, retries, recall) ==
  [id |-> id, active |-> active, timeout |-> 1, retry_count |-> retries,
   time_for_recall |-> recall, steps |-> 1]
On(id) == Device(id, TRUE, 2, 2)
Brief(id) == Device(id, TRUE, 1, 1)
Off(id) == Device(id, FALSE, 2, 2)
Node(ip, settings) == [addr |-> ip, devices |-> settings]

\* A device comes and goes or is switched off, in front of the other or behind it, and
\* the gateway moves.
MCConfigs ==
  {Node(ip1, <<On(d1), Brief(d2)>>), Node(ip1, <<On(d2), Off(d1)>>),
   Node(ip1, <<Off(d1), On(d2)>>), Node(ip2, <<Off(d1)>>), Node(ip1, <<>>)}
=============================================================================
