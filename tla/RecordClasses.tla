--------------------------- MODULE RecordClasses ---------------------------
(***************************************************************************)
(* The four classes of records that signals carry (the subclasses of       *)
(* ISignalPayloadMessage): which strings or waypoints each keeps on the    *)
(* heap, which of its fields isValid looks at, and what the application is *)
(* offered for them.  Other numbers of a record are one field, "rest".     *)
(***************************************************************************)
EXTENDS Sequences, FiniteSets

CONSTANTS
  Strings,        \* the strings of a WifiConfiguration that are followed
  MaxRouteSize,   \* waypoints of a route that is accepted (16)
  Unset           \* whatever the memory held

ASSUME StringsAssumption ==
    Strings \subseteq {"routerName", "routerPassword", "routerIp", "clientIp"}

Kinds == {"CONTROL_SETTINGS", "CALIBRATION_SETTINGS", "ROUTE_CONTAINER",
          "WIFI_CONFIGURATION"}

(* What a record of a kind keeps on the heap.                              *)
Parts(kind) ==
    CASE kind = "ROUTE_CONTAINER"    -> {"route"}
      [] kind = "WIFI_CONFIGURATION" -> Strings
      [] OTHER                       -> {}
-----------------------------------------------------------------------------
(***************************************************************************)
(* ControlSettings.  getUavTypes and its like offer strings, getUavType    *)
(* and its like turn one into the number of the field, or throw: nobody    *)
(* knows the "Tricopter" that is offered.  The rate is any number the user *)
(* enters, below zero ("up") or not ("down").                              *)
(***************************************************************************)
Offered == [
    uavType             |-> {"Tricopter", "Quadrocopter X", "Quadrocopter +",
                             "Hexacopter X", "Hexacopter +", "Octocopter X",
                             "Octocopter +"},
    initialSolverMode   |-> {"Stabilization", "Angle", "Angle no yaw"},
    manualThrottleMode  |-> {"Static", "Dynamic"},
    stickMovementMode   |-> {"Copter", "Geographic", "Base point"},
    batteryType         |-> {"Disabled", "2S", "3S", "4S", "5S", "6S"},
    errorHandlingAction |-> {"Autolanding", "Autolanding AP", "Back to base"},
    escPwmFreq          |-> {"Slow", "Medium", "Fast", "Very fast", "Oneshot125"},
    autoLandingDescedRate |-> {"down", "up"}]

Understood == [
    uavType             |-> {"Tricopter rear", "Tricopter front"} \cup
                             (Offered.uavType \ {"Tricopter"}),
    initialSolverMode   |-> Offered.initialSolverMode,
    manualThrottleMode  |-> Offered.manualThrottleMode,
    stickMovementMode   |-> Offered.stickMovementMode,
    batteryType         |-> Offered.batteryType,
    errorHandlingAction |-> Offered.errorHandlingAction,
    escPwmFreq          |-> Offered.escPwmFreq,
    autoLandingDescedRate |-> Offered.autoLandingDescedRate]

(* What isValid accepts, by the strings that stand for the numbers.  It    *)
(* does not look at escPwmFreq.                                            *)
Accepted_Less == [               \* mutant: one case of the switch is missing
    uavType             |-> {"Tricopter rear", "Tricopter front",
                             "Quadrocopter X", "Quadrocopter +", "Hexacopter X",
                             "Octocopter X", "Octocopter +"},
    initialSolverMode   |-> {"Stabilization", "Angle no yaw", "Angle"},
    manualThrottleMode  |-> {"Static", "Dynamic"},
    stickMovementMode   |-> {"Copter", "Geographic", "Base point"},
    batteryType         |-> {"Disabled", "2S", "3S", "4S", "5S", "6S"},
    errorHandlingAction |-> {"Autolanding", "Autolanding AP", "Back to base"},
    autoLandingDescedRate |-> {"down"}]
Accepted == [
    uavType             |-> {"Tricopter rear", "Tricopter front",
                             "Quadrocopter X", "Quadrocopter +", "Hexacopter X",
                             "Hexacopter +", "Octocopter X", "Octocopter +"},
    initialSolverMode   |-> {"Stabilization", "Angle no yaw", "Angle"},
    manualThrottleMode  |-> {"Static", "Dynamic"},
    stickMovementMode   |-> {"Copter", "Geographic", "Base point"},
    batteryType         |-> {"Disabled", "2S", "3S", "4S", "5S", "6S"},
    errorHandlingAction |-> {"Autolanding", "Autolanding AP", "Back to base"},
    autoLandingDescedRate |-> {"down"}]

(* createDefault leaves three of the fields to what the memory held.       *)
DefaultControl == [
    uavType |-> Unset, initialSolverMode |-> Unset, manualThrottleMode |-> Unset,
    stickMovementMode |-> "Copter", batteryType |-> "Disabled",
    errorHandlingAction |-> "Autolanding", escPwmFreq |-> "Medium",
    autoLandingDescedRate |-> "down"]
-----------------------------------------------------------------------------
(***************************************************************************)
(* CalibrationSettings: the board fills it in, as a board of a known type  *)
(* or not, with matrices that can be inverted or not.                      *)
(***************************************************************************)
Measured == [
    boardType  |-> {"unknown type", "known type", "no type"},
    magnetSoft |-> {"regular", "singular"},
    accelCalib |-> {"regular", "singular"}]

Invertible == [
    boardType  |-> {"unknown type", "known type"},
    magnetSoft |-> {"regular"},
    accelCalib |-> {"regular"}]

DefaultCalibration ==
    [boardType |-> "unknown type", magnetSoft |-> "regular", accelCalib |-> "regular"]
-----------------------------------------------------------------------------
(* The fields of a record, what they may be set to, and what isValid asks. *)
Settable(kind) ==
    CASE kind = "CONTROL_SETTINGS"     -> Understood
      [] kind = "CALIBRATION_SETTINGS" -> Measured
      [] kind = "ROUTE_CONTAINER"      -> [rest |-> {"times"}]
      [] OTHER                         -> [f \in {} |-> {}]

Fields(kind) == DOMAIN Settable(kind)

Judged(kind) ==
    CASE kind = "CONTROL_SETTINGS"     -> Accepted
      [] kind = "CALIBRATION_SETTINGS" -> Invertible
      [] OTHER                         -> [f \in {} |-> {}]
=============================================================================
