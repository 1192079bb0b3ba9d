------------------------ MODULE FirmwareUpdate_proofs -------------------------
(***************************************************************************)
(* Proofs about FirmwareUpdate, for any number of OTA slots, image size,   *)
(* commands and power failures.                                            *)
(***************************************************************************)
EXTENDS FirmwareUpdate, TLAPS

Updating == pc \in {"init", "transfer", "finish"}

\* The update object, the OTA handle and the slot they write to go together, and
\* that slot is not the one that runs.
TargetInv ==
    /\ IF Updating THEN d = otaPart /\ handle = otaPart ELSE d = None /\ handle = None
    /\ Updating \/ pc = "set_boot" => otaPart \in Slots /\ otaPart # running

\* Only the end of a successful update sets the running and the boot slot apart.
BootInv == pc \notin {"reply", "restart"} => boot = running

\* What the target slot holds is what the transfer has delivered.
ContentInv ==
    /\ pc = "init" => slot[otaPart] = Erased
    /\ pc \in {"transfer", "finish", "set_boot"} =>
         /\ slot[otaPart].len = delivered
         /\ delivered > 0 => slot[otaPart].ver = sending.ver
    /\ pc \in {"finish", "set_boot"} => outcome = "done"

\* The result code of a command is known only when its handler is about to end.
ReplyInv ==
    /\ pc \in {"begin", "init", "transfer", "finish", "set_boot", "reply"} =>
         reply = "none"
    /\ pc = "restart" => reply = "OK"
    /\ pc \in {"begin", "init", "transfer", "finish", "set_boot"} => boot = bootBefore

\* Direct mode lasts as long as the transfer.
DirectInv == pc # "transfer" => direct = FALSE

IInv ==
    /\ TypeOK
    /\ BootImageValid
    /\ TargetInv
    /\ BootInv
    /\ ContentInv
    /\ ReplyInv
    /\ DirectInv
    /\ ErrorKeepsBoot

\* The strengthened invariant holds when the device starts with a valid image.
LEMMA InitIInv == Init => IInv
<1> SUFFICES ASSUME Init PROVE IInv
    OBVIOUS
<1> USE DEF Init
<1>1. TypeOK
  <2>1. slot \in [Slots -> Images]
    <3>1. Erased \in Images /\ [ver |-> 0, len |-> FileSize, good |-> TRUE] \in Images
      BY UpdateBounds DEF Images, Erased
    <3>2. QED
      BY <3>1
  <2>2. pc \in Labels /\ reply \in Results
    BY DEF Labels, Results
  <2>3. delivered \in 0 .. FileSize /\ outcome \in {"running", "done", "failed"}
    BY UpdateBounds DEF T!Init
  <2>4. sending \in [ver : 0 .. MaxUpdates, good : BOOLEAN]
    BY UpdateBounds
  <2>5. updates \in 0 .. MaxUpdates /\ crashes \in 0 .. MaxCrashes
    BY UpdateBounds
  <2>6. QED
    BY <2>1, <2>2, <2>3, <2>5 DEF TypeOK
<1>2. BootImageValid
  BY DEF BootImageValid
<1>3. TargetInv /\ BootInv /\ ContentInv /\ ReplyInv /\ DirectInv /\ ErrorKeepsBoot
  BY DEF TargetInv, BootInv, ContentInv, ReplyInv, DirectInv, ErrorKeepsBoot,
     Updating
<1>4. QED
  BY <1>1, <1>2, <1>3 DEF IInv

\* Every step of the command, of the boot loader and of the power supply keeps it.
LEMMA NextIInv == IInv /\ [Next]_vars => IInv'
<1> SUFFICES ASSUME IInv, [Next]_vars PROVE IInv'
    OBVIOUS
<1> USE DEF IInv
<1>0. /\ TypeOK /\ BootImageValid /\ TargetInv /\ BootInv
      /\ ContentInv /\ ReplyInv /\ DirectInv /\ ErrorKeepsBoot
  OBVIOUS
<1>1. CASE Command
  <2>1. TypeOK'
    BY <1>1, UpdateBounds DEF Command, TypeOK, Labels, Results, transfer, flash
  <2>2. BootImageValid'
    BY <1>1 DEF Command, BootImageValid, flash
  <2>3. TargetInv' /\ BootInv' /\ DirectInv'
    BY <1>1 DEF Command, TargetInv, BootInv, DirectInv, Updating, flash
  <2>4. ContentInv'
    BY <1>1 DEF Command, ContentInv
  <2>5. ReplyInv' /\ ErrorKeepsBoot'
    BY <1>1 DEF Command, ReplyInv, ErrorKeepsBoot, flash
  <2>6. QED
    BY <2>1, <2>2, <2>3, <2>4, <2>5
<1>2. CASE Begin
  <2>0. slot' \in [Slots -> Images]
    <3>1. Erased \in Images /\ NextPartition[running] \in Slots
      BY SlotsAssumption, UpdateBounds DEF TypeOK, Images, Erased
    <3>2. slot' \in {slot, [slot EXCEPT ![NextPartition[running]] = Erased]}
      BY <1>2 DEF Begin, BeginUpdate, BeginUpdateFails
    <3>3. QED
      BY <3>1, <3>2 DEF TypeOK
  <2>1. TypeOK'
    BY <1>2, <2>0, SlotsAssumption DEF Begin, BeginUpdate, Goto, TypeOK, Labels,
       Results, transfer, bounds
  <2>2. BootImageValid'
    BY <1>2, SlotsAssumption DEF Begin, BeginUpdate, BeginUpdateFails,
       BootImageValid, TypeOK, BootInv
  <2>3. TargetInv' /\ BootInv' /\ DirectInv'
    BY <1>2, SlotsAssumption DEF Begin, BeginUpdate, Goto, TypeOK, TargetInv,
       BootInv, DirectInv, Updating
  <2>4. ContentInv'
    BY <1>2, SlotsAssumption DEF Begin, BeginUpdate, Goto, TypeOK, ContentInv,
       TargetInv, Updating
  <2>5. ReplyInv' /\ ErrorKeepsBoot'
    BY <1>2 DEF Begin, Goto, ReplyInv, ErrorKeepsBoot
  <2>6. QED
    BY <2>1, <2>2, <2>3, <2>4, <2>5
<1>3. CASE InitTransfer
  <2>1. TypeOK'
    <3>1. pc' \in Labels /\ reply' \in Results
      BY <1>3 DEF InitTransfer, Return, Goto, TypeOK, Labels, Results
    <3>2. /\ d' \in Slots \cup {None} /\ otaPart' \in Slots \cup {None}
          /\ handle' \in Slots \cup {None}
      BY <1>3 DEF InitTransfer, Return, CancelUpdate, TypeOK
    <3>3. /\ delivered' \in 0 .. FileSize
          /\ outcome' \in {"running", "done", "failed"}
      BY <1>3, UpdateBounds DEF InitTransfer, TypeOK, transfer
    <3>4. /\ direct' \in BOOLEAN
          /\ sending' \in [ver : 0 .. MaxUpdates, good : BOOLEAN]
          /\ slot' \in [Slots -> Images]
      BY <1>3 DEF InitTransfer, TypeOK, flash
    <3>5. /\ boot' \in Slots /\ running' \in Slots /\ bootBefore' \in Slots
          /\ updates' \in 0 .. MaxUpdates /\ crashes' \in 0 .. MaxCrashes
      BY <1>3 DEF InitTransfer, TypeOK, flash, bounds
    <3>6. QED
      BY <3>1, <3>2, <3>3, <3>4, <3>5 DEF TypeOK
  <2>2. BootImageValid'
    BY <1>3 DEF InitTransfer, BootImageValid, flash
  <2>3. TargetInv' /\ BootInv' /\ DirectInv'
    BY <1>3 DEF InitTransfer, Return, CancelUpdate, Goto, TargetInv, BootInv,
       DirectInv, Updating, flash
  <2>4. ContentInv'
    BY <1>3 DEF InitTransfer, Return, Goto, ContentInv, Erased, flash
  <2>5. ReplyInv' /\ ErrorKeepsBoot'
    BY <1>3 DEF InitTransfer, Return, Goto, ReplyInv, ErrorKeepsBoot, flash
  <2>6. QED
    BY <2>1, <2>2, <2>3, <2>4, <2>5
<1>4. CASE Receive
  <2>0. /\ delivered' \in 0 .. FileSize
        /\ outcome' \in {"running", "done", "failed"}
        /\ slot' \in [Slots -> Images]
    <3>1. /\ delivered' \in 0 .. FileSize
          /\ outcome' \in {"running", "done", "failed"}
      BY <1>4, UpdateBounds DEF Receive, T!Next, T!Deliver, T!Succeed, T!Fail,
         TypeOK
    <3>2. [ver |-> sending.ver, len |-> delivered', good |-> sending.good] \in Images
      BY <3>1 DEF TypeOK, Images
    <3>3. QED
      BY <1>4, <3>1, <3>2 DEF Receive, TypeOK
  <2>1. TypeOK'
    BY <1>4, <2>0 DEF Receive, TypeOK, bounds
  <2>2. BootImageValid'
    BY <1>4 DEF Receive, BootImageValid, TargetInv, BootInv, Updating
  <2>3. TargetInv' /\ BootInv' /\ DirectInv'
    BY <1>4 DEF Receive, TargetInv, BootInv, DirectInv, Updating
  <2>4. ContentInv'
    BY <1>4 DEF Receive, TypeOK, ContentInv, TargetInv, Updating
  <2>5. ReplyInv' /\ ErrorKeepsBoot'
    BY <1>4 DEF Receive, ReplyInv, ErrorKeepsBoot
  <2>6. QED
    BY <2>1, <2>2, <2>3, <2>4, <2>5
<1>5. CASE EndTransfer
  <2>1. TypeOK'
    BY <1>5 DEF EndTransfer, Return, CancelUpdate, Goto, TypeOK, Labels, Results,
       transfer, flash, bounds
  <2>2. BootImageValid'
    BY <1>5 DEF EndTransfer, BootImageValid, flash
  <2>3. TargetInv' /\ BootInv' /\ DirectInv'
    BY <1>5 DEF EndTransfer, Return, CancelUpdate, Goto, TargetInv, BootInv,
       DirectInv, Updating, flash
  <2>4. ContentInv'
    BY <1>5 DEF EndTransfer, Return, Goto, ContentInv, transfer, flash
  <2>5. ReplyInv' /\ ErrorKeepsBoot'
    BY <1>5 DEF EndTransfer, Return, Goto, ReplyInv, ErrorKeepsBoot, flash
  <2>6. QED
    BY <2>1, <2>2, <2>3, <2>4, <2>5
<1>6. CASE FinishOta
  <2>1. TypeOK'
    BY <1>6 DEF FinishOta, EndOta, Goto, TypeOK, Labels, Results, transfer, flash,
       bounds
  <2>2. BootImageValid'
    BY <1>6 DEF FinishOta, BootImageValid, flash
  <2>3. TargetInv' /\ BootInv' /\ DirectInv'
    BY <1>6 DEF FinishOta, EndOta, Goto, TargetInv, BootInv, DirectInv, Updating,
       flash
  <2>4. ContentInv'
    BY <1>6 DEF FinishOta, Goto, ContentInv, transfer, flash
  <2>5. ReplyInv' /\ ErrorKeepsBoot'
    BY <1>6 DEF FinishOta, Goto, ReplyInv, ErrorKeepsBoot, flash
  <2>6. QED
    BY <2>1, <2>2, <2>3, <2>4, <2>5
<1>7. CASE SetBoot
  <2>1. TypeOK'
    BY <1>7 DEF SetBoot, Return, CancelUpdate, Goto, TypeOK, TargetInv, Labels,
       Results, transfer, bounds
  <2>2. BootImageValid'
    BY <1>7 DEF SetBoot, BootImageValid
  <2>3. TargetInv' /\ BootInv' /\ DirectInv'
    BY <1>7 DEF SetBoot, Return, CancelUpdate, Goto, TargetInv, BootInv, DirectInv,
       Updating
  <2>4. ContentInv'
    BY <1>7 DEF SetBoot, Return, Goto, ContentInv
  <2>5. ReplyInv' /\ ErrorKeepsBoot'
    BY <1>7 DEF SetBoot, Return, Goto, ReplyInv, ErrorKeepsBoot
  <2>6. QED
    BY <2>1, <2>2, <2>3, <2>4, <2>5
<1>8. CASE Reply
  <2>1. TypeOK'
    BY <1>8 DEF Reply, TypeOK, Labels, Results, transfer, flash, bounds
  <2>2. BootImageValid'
    BY <1>8 DEF Reply, BootImageValid, flash
  <2>3. TargetInv' /\ BootInv' /\ DirectInv'
    BY <1>8 DEF Reply, TargetInv, BootInv, DirectInv, Updating
  <2>4. ContentInv'
    BY <1>8 DEF Reply, ContentInv
  <2>5. ReplyInv' /\ ErrorKeepsBoot'
    BY <1>8 DEF Reply, ReplyInv, ErrorKeepsBoot
  <2>6. QED
    BY <2>1, <2>2, <2>3, <2>4, <2>5
<1>9. CASE Restart
  <2>1. TypeOK'
    <3>1. pc' \in Labels /\ reply' \in Results
      BY <1>9 DEF Restart, Boot, TypeOK, Labels
    <3>2. /\ d' \in Slots \cup {None} /\ otaPart' \in Slots \cup {None}
          /\ handle' \in Slots \cup {None}
      BY <1>9 DEF Restart, Boot
    <3>3. /\ delivered' \in 0 .. FileSize
          /\ outcome' \in {"running", "done", "failed"}
      BY <1>9, UpdateBounds DEF Restart, Boot
    <3>4. /\ direct' \in BOOLEAN
          /\ sending' \in [ver : 0 .. MaxUpdates, good : BOOLEAN]
          /\ slot' \in [Slots -> Images]
      BY <1>9 DEF Restart, Boot, TypeOK, flash
    <3>5. /\ boot' \in Slots /\ running' \in Slots /\ bootBefore' \in Slots
          /\ updates' \in 0 .. MaxUpdates /\ crashes' \in 0 .. MaxCrashes
      BY <1>9 DEF Restart, Boot, TypeOK, flash
    <3>6. QED
      BY <3>1, <3>2, <3>3, <3>4, <3>5 DEF TypeOK
  <2>2. BootImageValid'
    BY <1>9 DEF Restart, Boot, BootImageValid, flash
  <2>3. TargetInv' /\ BootInv' /\ DirectInv'
    BY <1>9 DEF Restart, Boot, TargetInv, BootInv, DirectInv, BootImageValid,
       Updating, flash
  <2>4. ContentInv'
    BY <1>9 DEF Restart, Boot, ContentInv
  <2>5. ReplyInv' /\ ErrorKeepsBoot'
    BY <1>9 DEF Restart, Boot, ReplyInv, ErrorKeepsBoot
  <2>6. QED
    BY <2>1, <2>2, <2>3, <2>4, <2>5
<1>10. CASE Crash
  <2>1. TypeOK'
    <3>1. pc' \in Labels /\ reply' \in Results
      BY <1>10 DEF Crash, Boot, TypeOK, Labels
    <3>2. /\ d' \in Slots \cup {None} /\ otaPart' \in Slots \cup {None}
          /\ handle' \in Slots \cup {None}
      BY <1>10 DEF Crash, Boot
    <3>3. /\ delivered' \in 0 .. FileSize
          /\ outcome' \in {"running", "done", "failed"}
      BY <1>10, UpdateBounds DEF Crash, Boot
    <3>4. /\ direct' \in BOOLEAN
          /\ sending' \in [ver : 0 .. MaxUpdates, good : BOOLEAN]
          /\ slot' \in [Slots -> Images]
      BY <1>10 DEF Crash, Boot, TypeOK, flash
    <3>5. /\ boot' \in Slots /\ running' \in Slots /\ bootBefore' \in Slots
          /\ updates' \in 0 .. MaxUpdates /\ crashes' \in 0 .. MaxCrashes
      BY <1>10, UpdateBounds DEF Crash, Boot, TypeOK, flash
    <3>6. QED
      BY <3>1, <3>2, <3>3, <3>4, <3>5 DEF TypeOK
  <2>2. BootImageValid'
    BY <1>10 DEF Crash, Boot, BootImageValid, flash
  <2>3. TargetInv' /\ BootInv' /\ DirectInv'
    BY <1>10 DEF Crash, Boot, TargetInv, BootInv, DirectInv, BootImageValid,
       Updating, flash
  <2>4. ContentInv'
    BY <1>10 DEF Crash, Boot, ContentInv
  <2>5. ReplyInv' /\ ErrorKeepsBoot'
    BY <1>10 DEF Crash, Boot, ReplyInv, ErrorKeepsBoot, flash
  <2>6. QED
    BY <2>1, <2>2, <2>3, <2>4, <2>5
<1>11. CASE UNCHANGED vars
  <2>1. TypeOK'
    BY <1>11 DEF vars, TypeOK, transfer, ram, flash, bounds
  <2>2. BootImageValid'
    BY <1>11 DEF vars, BootImageValid, flash
  <2>3. TargetInv' /\ BootInv' /\ DirectInv'
    BY <1>11 DEF vars, TargetInv, BootInv, DirectInv, Updating, ram, flash
  <2>4. ContentInv'
    BY <1>11 DEF vars, ContentInv, transfer, ram, flash
  <2>5. ReplyInv' /\ ErrorKeepsBoot'
    BY <1>11 DEF vars, ReplyInv, ErrorKeepsBoot, ram, flash
  <2>6. QED
    BY <2>1, <2>2, <2>3, <2>4, <2>5
<1> QED
  BY <1>1, <1>2, <1>3, <1>4, <1>5, <1>6, <1>7, <1>8, <1>9, <1>10, <1>11 DEF Next,
     Handler

-------------------------------------------------------------------------------

\* Every variable of the update keeps its type, whatever fails and whenever power
\* does.
THEOREM TypeCorrect == Safe => []TypeOK
<1>1. Safe => []IInv
  BY InitIInv, NextIInv, PTL DEF Safe
<1>2. IInv => TypeOK
  BY DEF IInv
<1>3. QED
  BY <1>1, <1>2, PTL

\* The device always boots: whatever step of beginUpdate(), of the transfer or of
\* finishUpdate() fails or is cut short by a power failure, the boot partition and
\* the running slot hold complete, verified images.
THEOREM AlwaysBoots == Safe => []BootImageValid
<1>1. Safe => []IInv
  BY InitIInv, NextIInv, PTL DEF Safe
<1>2. IInv => BootImageValid
  BY DEF IInv
<1>3. QED
  BY <1>1, <1>2, PTL

\* Every exit of the AT+FWUPD handler leaves the update manager and the transport
\* ready for the next command.
THEOREM HandlerCleansUp == Safe => []NextUpdateCanBegin
<1>1. Safe => []IInv
  BY InitIInv, NextIInv, PTL DEF Safe
<1>2. IInv => NextUpdateCanBegin
  BY DEF IInv, TargetInv, DirectInv, NextUpdateCanBegin, Updating
<1>3. QED
  BY <1>1, <1>2, PTL

\* A command that ends with ERROR has not changed the boot partition.
THEOREM ErrorChangesNothing == Safe => []ErrorKeepsBoot
<1>1. Safe => []IInv
  BY InitIInv, NextIInv, PTL DEF Safe
<1>2. IInv => ErrorKeepsBoot
  BY DEF IInv
<1>3. QED
  BY <1>1, <1>2, PTL

\* The boot partition changes only to a slot that holds, complete and verified, the
\* image of a transfer that the receiver reported as DONE.
THEOREM SwitchesToSentImage == Safe => SwitchOnlyToSentImage
<1>1. Safe => []IInv
  BY InitIInv, NextIInv, PTL DEF Safe
<1>2. ASSUME IInv, [Next]_vars
      PROVE  [boot' # boot => /\ outcome = "done"
                              /\ Valid(slot[boot'])
                              /\ slot[boot'].ver = sending.ver]_vars
  <2>1. SUFFICES ASSUME boot' # boot
                 PROVE  /\ outcome = "done"
                        /\ Valid(slot[boot'])
                        /\ slot[boot'].ver = sending.ver
    OBVIOUS
  <2>2. SetBoot
    BY <1>2, <2>1 DEF Next, Handler, Command, Begin, InitTransfer, Receive,
       EndTransfer, FinishOta, Reply, Restart, Crash, Boot, vars, flash
  <2>3. boot' = otaPart /\ pc = "set_boot" /\ Valid(slot[otaPart])
    BY <2>1, <2>2 DEF SetBoot
  <2>4. delivered > 0
    BY <1>2, <2>3, UpdateBounds DEF IInv, ContentInv, Valid
  <2>5. QED
    BY <1>2, <2>3, <2>4 DEF IInv, ContentInv
<1>3. QED
  BY <1>1, <1>2, PTL DEF Safe, SwitchOnlyToSentImage
===============================================================================
