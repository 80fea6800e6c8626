----------------------------- MODULE MCDeviceIO -----------------------------
(***************************************************************************)
(* Small instances of DeviceIO for TLC: reports of two bytes, a frame that *)
(* ends in the middle of a report, answers that fit the buffer and one     *)
(* that does not.                                                          *)
(***************************************************************************)
EXTENDS DeviceIO

BothBackends == {"usb", "serial"}
Lengths == {3, 6}
=============================================================================
