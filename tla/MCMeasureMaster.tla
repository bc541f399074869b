--------------------------- MODULE MCMeasureMaster ---------------------------
(***************************************************************************)
(* Two logged tags of two devices and one that is not logged.              *)
(***************************************************************************)
EXTENDS MeasureMaster

CONSTANTS t1, t2, t3

TwoTags == {t1, t2}
AllTags == {t1, t2, t3}
TwoDevices == {<<t1, t3>>, <<t2>>}
=============================================================================
