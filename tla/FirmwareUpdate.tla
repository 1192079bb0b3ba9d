---------------------------- MODULE FirmwareUpdate ----------------------------
(***************************************************************************)
(* The firmware update: the AT+FWUPD handler of                            *)
(* main/at_command_manager.cpp, the UpdateManager of                       *)
(* main/update_manager.cpp, and the parts of ESP-IDF they call: the OTA    *)
(* slots and handles, the boot partition and the boot loader.  The XMODEM  *)
(* transfer is the abstract FileTransfer that XmodemReceiver implements.   *)
(*                                                                         *)
(* The AT task runs the handler alone; power may fail between any two of   *)
(* its steps.  An image is [ver, len, good]: which image it is, how much   *)
(* of it is in the slot, and whether what was sent is a correct image.     *)
(***************************************************************************)
EXTENDS Naturals

CONSTANTS
    Slots,              \* the OTA partitions (module_config/*/partitions_at.csv)
    NextPartition,      \* esp_ota_get_next_update_partition() for the running one
    FileSize,           \* portions of an image
    None,
    MaxUpdates,         \* bound: AT+FWUPD commands
    MaxCrashes          \* bound: power failures

ASSUME SlotsAssumption ==
    /\ NextPartition \in [Slots -> Slots]
    /\ \A s \in Slots : NextPartition[s] # s
    /\ None \notin Slots

ASSUME UpdateBounds ==
    FileSize \in Nat \ {0} /\ MaxUpdates \in Nat /\ MaxCrashes \in Nat

VARIABLES
    pc,             \* where the handler is; "idle" outside of it
    d,              \* UpdateManager::d_: the slot it writes to, or None
    otaPart,        \* d->otaPart, which finishUpdate() still uses after d_.release()
    handle,         \* the slot that an open OTA handle writes to, or None
    direct,         \* whether the AT transport is in direct mode
    reply,          \* final result code of the last command
    delivered, outcome,     \* the transfer (FileTransfer)
    sending,        \* [ver, good]: the image that the host sends
    slot,           \* flash: the image in each OTA slot
    boot,           \* flash: the boot partition of the otadata partition
    running,        \* the slot that runs
    bootBefore,     \* history: boot when the last command began
    updates, crashes

transfer == <<delivered, outcome>>
ram == <<pc, d, otaPart, handle, direct, reply, transfer, sending>>
flash == <<slot, boot>>
bounds == <<updates, crashes>>
vars == <<ram, flash, running, bootBefore, bounds>>

T == INSTANCE FileTransfer

Images == [ver : 0 .. MaxUpdates, len : 0 .. FileSize, good : BOOLEAN]
Erased == [ver |-> 0, len |-> 0, good |-> FALSE]
Results == {"none", "OK", "ERROR", "NO_MEMORY"}

\* What esp_ota_end() and esp_ota_set_boot_partition() verify.
Valid(image) == image.good /\ image.len = FileSize

-------------------------------------------------------------------------------
(* UpdateManager *)

\* Variant: the update object survives a failed update.
CancelUpdateKeepsObject ==
    /\ handle' = IF d # None THEN None ELSE handle
    /\ UNCHANGED d

\* cancelUpdate(), run by the handler's scope guard on every return.
CancelUpdate ==
    /\ d' = None
    /\ handle' = IF d # None THEN None ELSE handle

\* Variant: the image is written over the slot that the device boots from.
BeginUpdateInPlace ==
    /\ d = None
    /\ d' = running /\ otaPart' = running /\ handle' = running
    /\ slot' = [slot EXCEPT ![running] = Erased]

\* beginUpdate() succeeds: esp_ota_begin() erases the slot and opens a handle.
BeginUpdate ==
    /\ d = None
    /\ d' = NextPartition[running]
    /\ otaPart' = NextPartition[running]
    /\ handle' = NextPartition[running]
    /\ slot' = [slot EXCEPT ![NextPartition[running]] = Erased]

\* beginUpdate() fails: an update is open, no memory, or esp_ota_begin() fails,
\* before or after it has erased the slot.
BeginUpdateFails ==
    slot' \in {slot} \cup
        (IF d = None THEN {[slot EXCEPT ![NextPartition[running]] = Erased]} ELSE {})

\* finishUpdate(): d_ is released and esp_ota_end() frees the handle, whether or
\* not the image is valid.
EndOta == d # None /\ d' = None /\ handle' = None

-------------------------------------------------------------------------------
(* The AT+FWUPD handler, from the command to its result code *)

\* The handler returns and the scope guard, if it exists yet, cancels the update.
Return(code) ==
    /\ pc' = "idle"
    /\ reply' = code
    /\ CancelUpdate
    /\ UNCHANGED otaPart

Goto(label) == pc' = label /\ UNCHANGED reply

\* A command arrives; its parameter may be wrong.
Command ==
    /\ pc = "idle"
    /\ updates < MaxUpdates
    /\ updates' = updates + 1
    /\ bootBefore' = boot
    /\ \/ /\ pc' = "begin"
          /\ reply' = "none"
          /\ \E good \in BOOLEAN : sending' = [ver |-> updates', good |-> good]
       \/ /\ reply' = "ERROR"
          /\ UNCHANGED <<pc, sending>>
    /\ UNCHANGED <<d, otaPart, handle, direct, transfer, flash, running, crashes>>

Begin ==
    /\ pc = "begin"
    /\ \/ BeginUpdate /\ Goto("init")
       \/ /\ BeginUpdateFails
          /\ pc' = "idle" /\ reply' = "ERROR"
          /\ UNCHANGED <<d, otaPart, handle>>
    /\ UNCHANGED <<direct, transfer, sending, boot, running, bootBefore, bounds>>

\* xmodem.init(), the ONGOING reply and setDirectMode(true).  CHECK() returns the
\* error code of init() itself from the handler.
InitTransfer ==
    /\ pc = "init"
    /\ \/ /\ Goto("transfer")
          /\ direct' = TRUE
          /\ delivered' = 0 /\ outcome' = "running"
          /\ UNCHANGED <<d, otaPart, handle>>
       \/ /\ Return("NO_MEMORY")
          /\ UNCHANGED <<direct, transfer>>
    /\ UNCHANGED <<sending, flash, running, bootBefore, bounds>>

\* Variant: the receiver writes what it gets without regard to the file size.
ReceiveUnlimited ==
    /\ pc = "transfer" /\ outcome = "running"
    /\ delivered' = delivered + 1
    /\ slot' = [slot EXCEPT ![handle] =
                   [ver |-> sending.ver, len |-> delivered', good |-> sending.good]]
    /\ UNCHANGED <<pc, d, otaPart, handle, direct, reply, outcome, sending,
                   boot, running, bootBefore, bounds>>

\* xmodem.run() writes the portions it receives through the OTA handle.
Receive ==
    /\ pc = "transfer"
    /\ T!Next
    /\ slot' = IF delivered' = delivered THEN slot
               ELSE [slot EXCEPT ![handle] =
                       [ver |-> sending.ver, len |-> delivered', good |-> sending.good]]
    /\ UNCHANGED <<pc, d, otaPart, handle, direct, reply, sending,
                   boot, running, bootBefore, bounds>>

\* Variant: the update is finished whatever the result of the transfer.
EndTransferUnchecked ==
    /\ pc = "transfer" /\ outcome # "running"
    /\ direct' = FALSE
    /\ Goto("finish")
    /\ UNCHANGED <<d, otaPart, handle, transfer, sending, flash, running, bootBefore, bounds>>

\* Variant: the loop is left only when the transfer is done.
EndTransferWhenDone ==
    /\ pc = "transfer" /\ outcome = "done"
    /\ direct' = FALSE
    /\ Goto("finish")
    /\ UNCHANGED <<d, otaPart, handle, transfer, sending, flash, running, bootBefore, bounds>>

\* The loop is left: flushInput(), setDirectMode(false), and the result is tested.
EndTransfer ==
    /\ pc = "transfer"
    /\ outcome # "running"
    /\ direct' = FALSE
    /\ \/ outcome = "done" /\ Goto("finish") /\ UNCHANGED <<d, otaPart, handle>>
       \/ outcome = "failed" /\ Return("ERROR")
    /\ UNCHANGED <<transfer, sending, flash, running, bootBefore, bounds>>

\* finishUpdate() up to the verification of the image.
FinishOta ==
    /\ pc = "finish"
    /\ EndOta
    /\ UNCHANGED otaPart
    /\ \/ Valid(slot[otaPart]) /\ Goto("set_boot")
       \/ pc' = "idle" /\ reply' = "ERROR"
    /\ UNCHANGED <<direct, transfer, sending, flash, running, bootBefore, bounds>>

\* Variant: the boot partition is set but an error is reported.
SetBootReportsError ==
    /\ pc = "set_boot"
    /\ Return("ERROR") /\ boot' = otaPart
    /\ UNCHANGED <<direct, transfer, sending, slot, running, bootBefore, bounds>>

\* The rest of finishUpdate(); esp_ota_set_boot_partition() verifies
\* the image again, and may fail.
SetBoot ==
    /\ pc = "set_boot"
    /\ \/ /\ Valid(slot[otaPart])
          /\ Goto("reply")
          /\ boot' = otaPart
          /\ UNCHANGED <<d, otaPart, handle>>
       \/ Return("ERROR") /\ UNCHANGED boot
    /\ UNCHANGED <<direct, transfer, sending, slot, running, bootBefore, bounds>>

\* Variant: OK is returned like any other result, without a restart.
ReplyOnly ==
    /\ pc = "reply"
    /\ Return("OK")
    /\ UNCHANGED <<direct, transfer, sending, flash, running, bootBefore, bounds>>

\* esp_at_response_result(OK); waitWriteComplete() gives it a second to get out.
Reply ==
    /\ pc = "reply"
    /\ pc' = "restart"
    /\ reply' = "OK"
    /\ UNCHANGED <<d, otaPart, handle, direct, transfer, sending,
                   flash, running, bootBefore, bounds>>

\* The boot loader runs the boot partition if it holds a valid image, else
\* another slot that does.  RAM is lost; what the host has read is not.
Boot ==
    /\ \/ running' = boot /\ Valid(slot[boot])
       \/ ~Valid(slot[boot]) /\ running' \in {s \in Slots : Valid(slot[s])}
    /\ pc' = "idle"
    /\ d' = None /\ otaPart' = None /\ handle' = None
    /\ direct' = FALSE
    /\ delivered' = 0 /\ outcome' = "running"
    /\ UNCHANGED <<reply, sending, flash, bootBefore, updates>>

\* esp_restart()
Restart == pc = "restart" /\ Boot /\ UNCHANGED crashes

\* Power fails, or the chip is reset, between two steps.
Crash == crashes < MaxCrashes /\ crashes' = crashes + 1 /\ Boot

Init ==
    /\ pc = "idle"
    /\ d = None /\ otaPart = None /\ handle = None
    /\ direct = FALSE
    /\ reply = "none"
    /\ T!Init
    /\ sending = [ver |-> 0, good |-> FALSE]
    /\ boot \in Slots
    /\ running = boot
    /\ slot \in [Slots -> {Erased, [ver |-> 0, len |-> FileSize, good |-> TRUE]}]
    /\ Valid(slot[boot])
    /\ bootBefore = boot
    /\ updates = 0 /\ crashes = 0

Handler ==
    \/ Begin \/ InitTransfer \/ Receive \/ EndTransfer
    \/ FinishOta \/ SetBoot \/ Reply \/ Restart

Next == Command \/ Handler \/ Crash

Safe == Init /\ [][Next]_vars

\* The AT task goes on running the handler, and a transfer ends by itself: that is
\* what XmodemReceiver promises as TransferSpec.
Spec == Safe /\ WF_vars(Handler)

-------------------------------------------------------------------------------
(* Properties *)

Labels == {"idle", "begin", "init", "transfer", "finish", "set_boot", "reply", "restart"}

\* What every variable may hold.
TypeOK ==
    /\ pc \in Labels
    /\ d \in Slots \cup {None} /\ otaPart \in Slots \cup {None}
    /\ handle \in Slots \cup {None}
    /\ direct \in BOOLEAN
    /\ reply \in Results
    /\ delivered \in 0 .. FileSize
    /\ outcome \in {"running", "done", "failed"}
    /\ sending \in [ver : 0 .. MaxUpdates, good : BOOLEAN]
    /\ slot \in [Slots -> Images]
    /\ boot \in Slots /\ running \in Slots /\ bootBefore \in Slots
    /\ updates \in 0 .. MaxUpdates /\ crashes \in 0 .. MaxCrashes

\* Whenever power fails, the boot partition and the slot that runs hold complete,
\* verified images: an update never leaves a device that cannot boot.
BootImageValid == Valid(slot[boot]) /\ Valid(slot[running])

\* Outside of the handler no update object, OTA handle or direct mode is left over
\* from a command that failed at any of its steps, so that the next one can begin.
NextUpdateCanBegin ==
    pc = "idle" => d = None /\ handle = None /\ ~direct

\* In case of an ERROR the NCP continues execution (README, AT+FWUPD): the boot
\* partition is the one it was before the command.
ErrorKeepsBoot == reply \in {"ERROR", "NO_MEMORY"} => boot = bootBefore

\* The device switches only to the image of a transfer that was reported DONE.
SwitchOnlyToSentImage ==
    [][boot' # boot => /\ outcome = "done"
                       /\ Valid(slot[boot'])
                       /\ slot[boot'].ver = sending.ver]_vars

\* In case of OK the NCP restarts (README, AT+FWUPD), and runs the new image.
OkRestarts ==
    reply = "OK" ~> (pc = "idle" /\ running = boot /\ slot[running].ver = sending.ver)

\* The handler always comes back to the AT interpreter or restarts the device.
HandlerReturns == pc # "idle" ~> pc = "idle"
===============================================================================
