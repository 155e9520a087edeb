---------------------------- MODULE BluetoothPort ----------------------------
(***************************************************************************)
(* What every port of the Bluetooth audio HAL (the AIDL and the HIDL one,   *)
(* for output and for input) has in common: the states of its stream and    *)
(* what the answers of the Bluetooth stack make of them.                    *)
(***************************************************************************)

StreamState == {"DISABLED", "STANDBY", "STARTING", "STARTED", "SUSPENDING"}
Status      == {"SUCCESS", "FAILURE", "RECONFIGURATION"}

(* ControlResultHandler: the port's next state.  It is not told whether the *)
(* answer is one to startStream or to suspendStream, nor to whose.          *)
ControlResult(s, status) ==
  CASE s = "STARTED" -> IF status = "FAILURE" THEN s ELSE "STANDBY"
    [] s = "STARTING" -> IF status = "SUCCESS" THEN "STARTED" ELSE "STANDBY"
    [] s = "SUSPENDING" -> IF status = "SUCCESS" THEN "STANDBY" ELSE "DISABLED"
    [] OTHER -> s

=============================================================================
