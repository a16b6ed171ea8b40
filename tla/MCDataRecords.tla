---------------------------- MODULE MCDataRecords ----------------------------
(* Routes of at most two waypoints are accepted; three is too many.        *)
EXTENDS DataRecords
MCMaxCalls == [CONTROL_SETTINGS |-> 5, CALIBRATION_SETTINGS |-> 6,
               ROUTE_CONTAINER |-> 8, WIFI_CONFIGURATION |-> 7]
MCTexts == {<<"x">>, <<"y", "x">>, <<"x", "y", "x">>}
==============================================================================
