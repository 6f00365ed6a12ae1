------------------------------- MODULE MscDisk -------------------------------
(***************************************************************************)
(* The mass-storage class (usbh_msc.c) and the disk driver of the file     *)
(* system above it (usbh_diskio.c), over the commands of ScsiCommand,      *)
(* which the bulk-only transport implements (MscBot).                      *)
(*                                                                         *)
(* Two threads share the class handle.  The USB thread examines the        *)
(* logical units when a session begins and then tells the user, who mounts *)
(* the file system.  The application's thread reads and writes sectors of  *)
(* unit 0: it polls the command itself, in a loop that ends with the       *)
(* command, with the connection or after a time limit.                     *)
(*                                                                         *)
(* The session is MscSession, which the host implements (UsbhCore): its    *)
(* steps are those of the host that the class sees.  The device and FatFs, *)
(* which asks for sectors while a volume is mounted, are external.         *)
(***************************************************************************)
EXTENDS Naturals

CONSTANTS
  MaxSupportedLun, \* MAX_SUPPORTED_LUN: the units a handle has room for
  Answers          \* what the device answers to GET_MAX_LUN, a byte; a refusal
                   \* counts as 0

ASSUME DiskAssumption == MaxSupportedLun \in Nat \ {0} /\ Answers \subseteq 0..255

Luns == 0 .. MaxSupportedLun - 1

VARIABLES
  connected, session, mounted, \* MscSession
  mscState,   \* MSC_Handle->state
  maxLun,     \* MSC_Handle->max_lun: how many units are examined
  lun,        \* MSC_Handle->current_lun
  unit,       \* MSC_Handle->unit, with block: its block size, "unread" before
              \* READ_CAPACITY, then "zero" or "sized"
  late,       \* ten seconds have passed since MSC_Handle->timer was set; of no
              \* interest once the units are examined
  busy, cmd, moved, answer,    \* ScsiCommand
  app,        \* the loop of USBH_MSC_Read or USBH_MSC_Write it is in, or "idle"
  handle,     \* the handle the loop began with: "current", "leaked" or "freed"
  overdue,    \* the time limit of the loop has passed
  result,     \* what USBH_read or USBH_write returned, "none" in the loop
  good,       \* history: the command of that transfer moved its data and passed
  clean       \* history: the application had let go of the last session when
              \* this one began

portVars    == <<connected, session, mounted>>
botVars     == <<busy, cmd, moved, answer>>
handleVars  == <<mscState, maxLun, lun, unit, late, botVars>>
appVars     == <<app, handle, overdue, result, good>>
diskVars    == <<portVars, handleVars, appVars, clean>>

UnitStates ==
  {"MSC_INIT", "MSC_IDLE", "MSC_TEST_UNIT_READY", "MSC_READ_CAPACITY10", "MSC_READ_INQUIRY",
   "MSC_REQUEST_SENSE", "MSC_READ", "MSC_WRITE", "MSC_UNRECOVERED_ERROR"}
Errors     == {"MSC_OK", "MSC_NOT_READY", "MSC_ERROR"}
Transfers  == {"MSC_READ", "MSC_WRITE"}
Failures   == {"RES_ERROR", "RES_NOTRDY", "RES_WRPRT"}

(* Sense data: the first is tried again in the examination, and answered   *)
(* as not ready; a unit attention is tried again as well.  Nobody reads    *)
(* the sense data of another unit than 0.                                  *)
Senses   == {"NOT_READY", "WRITE_PROTECTED", "OTHER"}
Kept(s)  == IF lun = 0 THEN s ELSE "OTHER"

(* The block size a device may answer: 16 bits are kept of it, unchecked.  *)
(* Nobody uses that of another unit than 0 either.                         *)
BlockSizes == {"unread", "zero", "sized"}
Answered   == IF lun = 0 THEN {"zero", "sized"} ELSE {"sized"}

Unit == [state : UnitStates, error : Errors, sense : Senses, block : BlockSizes]

(* A command is named for the unit state that sends it; whether it moves   *)
(* data depends on the block size of unit 0, 0 until its capacity is read  *)
(* and 0 when the device says so.                                          *)
Asking ==
  {"MSC_TEST_UNIT_READY", "MSC_READ_CAPACITY10", "MSC_READ_INQUIRY", "MSC_REQUEST_SENSE"}
Commands == [op : Asking \union Transfers, lun : 0..MaxSupportedLun, len : 0..1]
Command(o, l) ==
  [op |-> o, lun |-> l,
   len |-> IF \/ o = "MSC_TEST_UNIT_READY"
              \/ o \in Transfers /\ unit[0].block # "sized" THEN 0 ELSE 1]

NoCommand == [op |-> "MSC_READ_INQUIRY", lun |-> 0, len |-> 1]

NewUnit == [state |-> "MSC_INIT", error |-> "MSC_OK", sense |-> "OTHER", block |-> "unread"]

Bot == INSTANCE ScsiCommand
Session == INSTANCE MscSession

(* The class has a handle: pData is not NULL.                              *)
HasHandle == session \in {"opened", "class", "lost"}

HandleTypeOK ==
  /\ connected \in BOOLEAN /\ mounted \in BOOLEAN
  /\ session \in {"none", "opened", "class", "lost", "closing"}
  /\ mscState \in {"MSC_INIT", "MSC_IDLE"} \union Transfers
  /\ maxLun \in 0..(MaxSupportedLun + 1) /\ lun \in 0..(MaxSupportedLun + 1)
  /\ unit \in [Luns -> Unit] /\ late \in BOOLEAN

CommandTypeOK ==
  /\ busy \in BOOLEAN /\ cmd \in Commands /\ moved \in 0..1
  /\ answer \in {"none", "passed", "failed", "phase"}

AppTypeOK ==
  /\ app \in {"idle"} \union Transfers
  /\ handle \in {"current", "leaked", "freed"} /\ overdue \in BOOLEAN
  /\ result \in {"none", "RES_OK"} \union Failures
  /\ good \in BOOLEAN /\ clean \in BOOLEAN

DiskTypeOK == HandleTypeOK /\ CommandTypeOK /\ AppTypeOK

----------------------------------------------------------------------------
(* One call of a function of usbh_msc_scsi.c: the first call begins the    *)
(* command; later ones ask for the answer to the command outstanding,      *)
(* whichever it is.                                                        *)
ScsiCall(o, l, status) ==
  \/ status = "BUSY" /\ Bot!Begin /\ cmd' = Command(o, l)
  \/ status = "BUSY" /\ busy /\ UNCHANGED botVars
  \/ status = "OK"   /\ Bot!End(TRUE)
  \/ status = "FAIL" /\ Bot!End(FALSE)

ScsiStatus == {"BUSY", "OK", "FAIL"}

----------------------------------------------------------------------------
(* The USB thread: USBH_MSC_Process.  Every step of MSC_INIT first marks   *)
(* the current unit as not ready.                                          *)

Examines(state) ==
  /\ session = "class" /\ connected /\ mscState = "MSC_INIT"
  /\ lun < maxLun /\ lun \in Luns /\ unit[lun].state = state
  /\ UNCHANGED <<portVars, mscState, maxLun, appVars, clean>>

(* The command of the current unit's state: status is its answer.          *)
Asks(state, status) ==
  Examines(state) /\ ScsiCall(state, lun, status) /\ UNCHANGED late

Becomes(state, error) ==
  unit' = [unit EXCEPT ![lun].state = state, ![lun].error = error]

ClassWaits ==
  \E state \in Asking :
    /\ Asks(state, "BUSY")
    /\ Becomes(state, "MSC_NOT_READY") /\ UNCHANGED lun

ExamineUnit ==
  /\ Examines("MSC_INIT") /\ Becomes("MSC_READ_INQUIRY", "MSC_NOT_READY")
  /\ late' = FALSE /\ UNCHANGED <<lun, botVars>>

Inquiry(status) ==
  /\ Asks("MSC_READ_INQUIRY", status)
  /\ \/ status = "OK"   /\ Becomes("MSC_TEST_UNIT_READY", "MSC_NOT_READY")
     \/ status = "FAIL" /\ Becomes("MSC_REQUEST_SENSE", "MSC_NOT_READY")
  /\ UNCHANGED lun

TestUnitReady(status) ==
  /\ Asks("MSC_TEST_UNIT_READY", status)
  /\ \/ status = "OK"   /\ Becomes("MSC_READ_CAPACITY10", "MSC_OK")
     \/ status = "FAIL" /\ Becomes("MSC_REQUEST_SENSE", "MSC_NOT_READY")
  /\ UNCHANGED lun

(* Variant: the error TEST_UNIT_READY cleared is not set again.            *)
ReadCapacityOptimistic(status) ==
  /\ Asks("MSC_READ_CAPACITY10", status)
  /\ \/ /\ status = "OK" /\ lun' = lun + 1
        /\ \E block \in Answered :
             unit' = [unit EXCEPT ![lun].state = "MSC_IDLE", ![lun].error = "MSC_OK",
                                  ![lun].block = block]
     \/ status = "FAIL" /\ lun' = lun + 1 /\ Becomes("MSC_IDLE", "MSC_OK")

ReadCapacity(status) ==
  /\ Asks("MSC_READ_CAPACITY10", status)
  /\ \/ /\ status = "OK" /\ lun' = lun + 1
        /\ \E block \in Answered :
             unit' = [unit EXCEPT ![lun].state = "MSC_IDLE", ![lun].error = "MSC_OK",
                                  ![lun].block = block]
     \/ status = "FAIL" /\ Becomes("MSC_REQUEST_SENSE", "MSC_NOT_READY") /\ UNCHANGED lun

(* Variant: the time limit is not looked at.                               *)
RequestSenseForEver(status) ==
  /\ Asks("MSC_REQUEST_SENSE", status)
  /\ \/ status = "FAIL" /\ Becomes("MSC_UNRECOVERED_ERROR", "MSC_NOT_READY") /\ UNCHANGED lun
     \/ /\ status = "OK"
        /\ \E sense \in Senses :
             \E again \in BOOLEAN :
               /\ again <=> sense = "NOT_READY"
               /\ unit' = [unit EXCEPT ![lun].error = "MSC_NOT_READY", ![lun].sense = Kept(sense),
                             ![lun].state = IF again THEN "MSC_TEST_UNIT_READY" ELSE "MSC_IDLE"]
               /\ lun' = IF again THEN lun ELSE lun + 1

(* A unit that is not ready yet is tried again for ten seconds.            *)
RequestSense(status) ==
  /\ Asks("MSC_REQUEST_SENSE", status)
  /\ \/ status = "FAIL" /\ Becomes("MSC_UNRECOVERED_ERROR", "MSC_NOT_READY") /\ UNCHANGED lun
     \/ /\ status = "OK"
        /\ \E sense \in Senses :
             \E again \in BOOLEAN :
               /\ again <=> sense = "NOT_READY" /\ ~late
               /\ unit' = [unit EXCEPT ![lun].error = "MSC_NOT_READY", ![lun].sense = Kept(sense),
                             ![lun].state = IF again THEN "MSC_TEST_UNIT_READY" ELSE "MSC_IDLE"]
               /\ lun' = IF again THEN lun ELSE lun + 1

UnrecoveredError ==
  /\ Examines("MSC_UNRECOVERED_ERROR") /\ Becomes("MSC_UNRECOVERED_ERROR", "MSC_NOT_READY")
  /\ lun' = lun + 1 /\ UNCHANGED <<late, botVars>>

(* There is one unit more than the handle has room for: its state and its  *)
(* error are the two bytes of current_lun, one-byte enumerations as this   *)
(* build has them.  Marking it not ready takes current_lun past max_lun,   *)
(* and its state is MSC_TEST_UNIT_READY (2) if the unit's address is kept  *)
(* in a register; if it is computed again, its state is somewhere behind   *)
(* the handle, and this model has it ask for no command.                   *)
Overrun ==
  /\ session = "class" /\ connected /\ mscState = "MSC_INIT"
  /\ lun < maxLun /\ lun \notin Luns
  /\ lun' = maxLun
  /\ \/ UNCHANGED botVars
     \/ \E status \in ScsiStatus : ScsiCall("MSC_TEST_UNIT_READY", lun, status)
  /\ UNCHANGED <<portVars, mscState, maxLun, unit, late, appVars, clean>>

(* All units are examined: HOST_USER_CLASS_ACTIVE mounts the file system.  *)
ClassActive ==
  /\ Session!Activate /\ mscState = "MSC_INIT" /\ lun >= maxLun
  /\ lun' = 0 /\ mscState' = "MSC_IDLE" /\ late' = FALSE
  /\ UNCHANGED <<maxLun, unit, botVars, appVars, clean>>

ClassProcess ==
  \/ ClassWaits \/ ExamineUnit \/ UnrecoveredError \/ Overrun \/ ClassActive
  \/ \E status \in ScsiStatus :
       Inquiry(status) \/ TestUnitReady(status) \/ ReadCapacity(status) \/ RequestSense(status)

----------------------------------------------------------------------------
(* The application's thread: USBH_read and USBH_write.                     *)

(* The answer of usbh_diskio.c to a failure comes from the sense data of   *)
(* unit 0; outside HOST_CLASS it comes from a variable nobody wrote.       *)
SenseResult(o, sense) ==
  CASE sense = "WRITE_PROTECTED" /\ o = "MSC_WRITE" -> "RES_WRPRT"
    [] sense = "NOT_READY" -> "RES_NOTRDY"
    [] OTHER -> "RES_ERROR"

Fails(o, res) == res \in IF session = "class" THEN {SenseResult(o, unit[0].sense)} ELSE Failures

(* Variant: the unit may be in the middle of another transfer.             *)
ReadyUnchecked == connected /\ session = "class"

Ready == connected /\ session = "class" /\ unit[0].state = "MSC_IDLE"

Refused(o) ==
  /\ app = "idle" /\ mounted /\ ~Ready
  /\ \E res \in Failures : Fails(o, res) /\ result' = res
  /\ UNCHANGED <<portVars, handleVars, app, handle, overdue, good, clean>>

BeginTransfer(o) ==
  /\ app = "idle" /\ mounted /\ Ready
  /\ app' = o /\ handle' = "current" /\ overdue' = FALSE
  /\ result' = "none" /\ good' = FALSE
  /\ mscState' = o /\ unit' = [unit EXCEPT ![0].state = o]
  /\ \E status \in ScsiStatus : ScsiCall(o, 0, status)
  /\ UNCHANGED <<portVars, maxLun, lun, late, clean>>

(* The command of the transfer: what a call of USBH_MSC_RdWrProcess finds  *)
(* in unit 0 and what it makes of it.                                      *)
Transfer(error) ==
  \E status \in ScsiStatus :
    /\ unit[0].state \in Transfers /\ ScsiCall(unit[0].state, 0, status)
    /\ error = IF status = "OK" THEN "OK" ELSE "BUSY"
    /\ unit' = [unit EXCEPT ![0].state = CASE status = "OK"   -> "MSC_IDLE"
                                           [] status = "FAIL" -> "MSC_REQUEST_SENSE"
                                           [] status = "BUSY" -> @]
    /\ good' = (status = "OK" /\ cmd.op = app /\ moved = 1)

(* Variant: the sense data is stored but the unit is not marked.           *)
TransferSenseUnmarked(error) ==
  \E status \in ScsiStatus :
    /\ unit[0].state = "MSC_REQUEST_SENSE" /\ ScsiCall("MSC_REQUEST_SENSE", 0, status)
    /\ error = IF status = "OK" THEN "FAIL" ELSE "BUSY"
    /\ IF status # "OK" THEN UNCHANGED unit
       ELSE \E sense \in Senses :
              unit' = [unit EXCEPT ![0].state = "MSC_IDLE", ![0].sense = sense]
    /\ UNCHANGED good

TransferSense(error) ==
  \E status \in ScsiStatus :
    /\ unit[0].state = "MSC_REQUEST_SENSE" /\ ScsiCall("MSC_REQUEST_SENSE", 0, status)
    /\ error = IF status = "OK" THEN "FAIL" ELSE "BUSY"
    /\ IF status # "OK" THEN UNCHANGED unit
       ELSE \E sense \in Senses :
              unit' = [unit EXCEPT ![0].state = "MSC_IDLE", ![0].error = "MSC_ERROR",
                                   ![0].sense = sense]
    /\ UNCHANGED good

TransferElse(error) ==
  /\ unit[0].state \notin Transfers \union {"MSC_REQUEST_SENSE"}
  /\ error = "BUSY" /\ UNCHANGED <<unit, botVars, good>>

(* Without a handle the call reads through a null pointer: no effect.      *)
RdWrProcess(error) ==
  IF ~HasHandle THEN error = "BUSY" /\ UNCHANGED <<unit, botVars, good>>
  ELSE Transfer(error) \/ TransferSense(error) \/ TransferElse(error)

(* The loop ends by writing MSC_IDLE to the handle it began with: to the   *)
(* memory of whoever has it, when that was freed.                          *)
Releases ==
  \/ handle = "current" /\ mscState' = "MSC_IDLE"
  \/ handle = "leaked"  /\ UNCHANGED mscState
  \/ handle = "freed"   /\ mscState' \in {mscState, "MSC_IDLE"}

(* Variant: only the connection ends the loop.                             *)
GivesUpUnplugged == ~connected

GivesUp == overdue \/ ~connected

(* Variant: the status of the class is returned as it is.                  *)
EndTransferRaw(error) ==
  /\ app # "idle" /\ app' = "idle" /\ overdue' = FALSE /\ Releases
  /\ error # "BUSY" \/ GivesUp
  /\ result' = error

(* Whatever ends the loop but the time limit and the connection is         *)
(* USBH_OK, the USBH_FAIL of USBH_MSC_RdWrProcess included.                *)
EndTransfer(error) ==
  /\ app # "idle" /\ app' = "idle" /\ overdue' = FALSE /\ Releases
  /\ \/ error # "BUSY" /\ result' = "RES_OK"
     \/ /\ error = "BUSY" /\ GivesUp
        /\ \E res \in Failures : Fails(app, res) /\ result' = res

KeepPolling(error) ==
  /\ app # "idle" /\ error = "BUSY" /\ ~GivesUp
  /\ UNCHANGED <<app, overdue, mscState, result>>

PollTransfer ==
  /\ \E error \in {"BUSY", "OK", "FAIL"} :
       RdWrProcess(error) /\ (EndTransfer(error) \/ KeepPolling(error))
  /\ UNCHANGED <<portVars, maxLun, lun, late, handle, clean>>

Application == PollTransfer \/ \E o \in Transfers : BeginTransfer(o) \/ Refused(o)

----------------------------------------------------------------------------
(* Time, the device, and the session.                                      *)

TenSeconds ==
  /\ session = "class" /\ mscState = "MSC_INIT" /\ ~late /\ late' = TRUE
  /\ UNCHANGED <<portVars, mscState, maxLun, lun, unit, botVars, appVars, clean>>

TimeLimit ==
  /\ app # "idle" /\ ~overdue /\ overdue' = TRUE
  /\ UNCHANGED <<portVars, handleVars, app, handle, result, good, clean>>

DeviceActs ==
  /\ session = "class" /\ connected /\ (Bot!Move \/ Bot!Answer)
  /\ UNCHANGED <<portVars, mscState, maxLun, lun, unit, late, appVars, clean>>

Plugging ==
  /\ Session!Connect \/ Session!Disconnect
  /\ UNCHANGED <<handleVars, appVars, clean>>

(* GET_MAX_LUN is answered with the highest unit: the number of units is   *)
(* cut to MAX_SUPPORTED_LUN, but only from an answer above it.             *)
UnitsOf(highest) == IF highest > MaxSupportedLun THEN MaxSupportedLun ELSE highest + 1

EnterClass ==
  /\ Session!Enter
  /\ \E highest \in Answers : maxLun' = UnitsOf(highest)
  /\ UNCHANGED <<mscState, lun, unit, late, botVars, appVars, clean>>

(* GET_MAX_LUN is given up, or clearing an endpoint that stalled a command.*)
LoseSession ==
  /\ Session!Lose /\ (session = "class" => busy)
  /\ UNCHANGED <<handleVars, appVars, clean>>

(* A handle of zeros, which is also what stands here for no handle.        *)
NewHandle ==
  /\ mscState' = "MSC_INIT" /\ maxLun' = 0 /\ lun' = 0
  /\ unit' = [l \in Luns |-> NewUnit] /\ late' = FALSE
  /\ busy' = FALSE /\ cmd' = NoCommand /\ moved' = 0 /\ answer' = "none"

(* What becomes of the handle the application's loop may still hold.       *)
Leaves(fate) ==
  /\ NewHandle /\ handle' = IF handle = "current" THEN fate ELSE handle
  /\ UNCHANGED <<app, overdue, result, good>>

(* USBH_MSC_InterfaceInit allocates a handle and forgets the old one.      *)
OpenSession ==
  Session!Open /\ Leaves("leaked") /\ clean' = (app = "idle" /\ ~mounted)

(* It forgets the old one and gets none, or the class is not chosen again. *)
ForgetSession == Session!Forget /\ Leaves("leaked") /\ UNCHANGED clean

(* DEV_DISCONNECTED: the handle is freed, then the volume is unmounted.    *)
Teardown == Session!Close /\ Leaves("freed") /\ UNCHANGED clean

Unmount == Session!Unmount /\ UNCHANGED <<handleVars, appVars, clean>>

Environment ==
  \/ TenSeconds \/ TimeLimit \/ DeviceActs \/ Plugging
  \/ OpenSession \/ EnterClass \/ LoseSession \/ ForgetSession \/ Teardown \/ Unmount

----------------------------------------------------------------------------
DiskInit ==
  /\ Session!Init
  /\ mscState = "MSC_INIT" /\ maxLun = 0 /\ lun = 0
  /\ unit = [l \in Luns |-> NewUnit] /\ late = FALSE
  /\ busy = FALSE /\ cmd = NoCommand
  /\ moved = 0 /\ answer = "none"
  /\ app = "idle" /\ handle = "freed" /\ overdue = FALSE
  /\ result = "none" /\ good = FALSE /\ clean = FALSE

DiskNext == ClassProcess \/ Application \/ Environment

DiskSpec == DiskInit /\ [][DiskNext]_diskVars

(* Both threads are scheduled, time passes, and the device moves on with   *)
(* the commands it gets while its session lasts.                           *)
DiskFairSpec ==
  /\ DiskSpec /\ WF_diskVars(ClassProcess) /\ WF_diskVars(PollTransfer)
  /\ WF_diskVars(TenSeconds) /\ WF_diskVars(TimeLimit) /\ WF_diskVars(DeviceActs)

----------------------------------------------------------------------------
(* Properties.                                                             *)

(* A session the application had let go of the last one for, with a device *)
(* that has no more units than the handle has room for.                    *)
Sound == clean /\ maxLun <= MaxSupportedLun

(* usbh_msc_scsi.c, hbot.cmd_state: the functions do not look whose        *)
(* command is outstanding.  In a sound session it is always the one the    *)
(* unit's state asks for, so no thread takes the answer to another         *)
(* command, and a command answered passed was its own.                     *)
OwnCommand ==
  Sound /\ HasHandle /\ busy =>
    /\ cmd.op = unit[cmd.lun].state
    /\ cmd.lun = IF mscState = "MSC_INIT" THEN lun ELSE 0

(* usbh_msc.c, USBH_MSC_UnitIsReady: in a sound session a unit of the      *)
(* device that is reported ready once the units are examined has had its   *)
(* capacity read.  What the device said of its block size is believed,     *)
(* also if it is 0.                                                        *)
CapacityKnown ==
  Sound /\ HasHandle /\ mscState # "MSC_INIT" =>
    \A l \in Luns : l < maxLun /\ unit[l].error = "MSC_OK" => unit[l].block # "unread"

(* usbh_diskio.c, USBH_status: in a sound session, if the device did not   *)
(* say its block size is 0: when a transfer that moved no data is answered *)
(* RES_OK, the unit is no longer reported ready.                           *)
ErrorRecorded ==
  /\ Sound /\ unit[0].block # "zero"
  /\ handle = "current" /\ result = "RES_OK" /\ ~good
  => unit[0].error # "MSC_OK"

(* usbh_msc.c, USBH_MSC_Read and USBH_MSC_Write: the call ends, whatever   *)
(* the device, the connection and the other thread do.                     *)
TransferEnds == app # "idle" ~> app = "idle"

(* usbh_msc.c, "try to check again during 10s": the examination of the     *)
(* units of a sound session that lasts ends, also of units that never get  *)
(* ready.                                                                  *)
ExaminationEnds ==
  Sound /\ session = "class" /\ mscState = "MSC_INIT" ~>
    mscState # "MSC_INIT" \/ session # "class" \/ ~connected

(* usbh_diskio.c, USBH_write, "USB Disk is Write protected!": a write the  *)
(* device refused because the medium is protected is answered RES_WRPRT.   *)
WriteProtectReported ==
  [][/\ app = "MSC_WRITE" /\ app' = "idle"
     /\ unit[0].state = "MSC_REQUEST_SENSE" /\ unit'[0].sense = "WRITE_PROTECTED"
     => result' = "RES_WRPRT"]_diskVars

=============================================================================
