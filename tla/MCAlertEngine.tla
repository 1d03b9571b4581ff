--------------------------- MODULE MCAlertEngine ---------------------------
(* A small instance of the disk rule with its collector for TLC: an external *)
(* volume next to one that is not shown.  The readings lie below, inside and *)
(* above the hysteresis band of each of the two thresholds.                  *)
EXTENDS VolumeAlerts

MCDisks == {"usb", "vm"}
MCMount == [usb |-> "volume", vm |-> "system"]
MCUsage == {50, 89, 94, 96}
=============================================================================
