--------------------------- MODULE MCFirmwareUpdate ---------------------------
(* FirmwareUpdate with the two OTA partitions of the partition tables. *)
EXTENDS FirmwareUpdate

MCSlots == {"ota_0", "ota_1"}
MCNextPartition == [s \in MCSlots |-> IF s = "ota_0" THEN "ota_1" ELSE "ota_0"]
===============================================================================
