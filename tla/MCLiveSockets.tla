--------------------------- MODULE MCLiveSockets ---------------------------
(***************************************************************************)
(* A node, a device and a value, and browsers that ask for some of them.   *)
(***************************************************************************)
EXTENDS LiveSockets

CONSTANTS s1, s2

OneSocket == {s1}
TwoSockets == {s1, s2}
OneNode == {"node"}
OneDevice == {"device"}
OneTag == {"tag"}
TwoNodeStates == {"Connected", "UnConnected"}
OneDeviceState == {"Full"}
TwoReadings == {"low", "high"}
SomeConfigs == {{"node", "tag"}, {"device"}}
=============================================================================
