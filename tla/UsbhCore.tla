------------------------------ MODULE UsbhCore ------------------------------
(***************************************************************************)
(* The host state machine of the USB host library (usbh_core.c), the pipe  *)
(* pool (usbh_pipes.c), the frame of the mass-storage class (usbh_msc.c)   *)
(* and the user callbacks (usb_host.c, usbh_user_callback.c).              *)
(*                                                                         *)
(* The USB thread takes one message from the queue os_event and calls      *)
(* USBH_Process once, which advances gState by one step; steps that need   *)
(* to run again leave a message behind.  Interrupts change the connection  *)
(* flags and leave messages too.  Control requests are the actions of      *)
(* ControlTransfer, which usbh_ctlreq.c implements (UsbhControl).          *)
(*                                                                         *)
(* USBH_Stop, USBH_ReEnumerate and USBH_DeInit have no caller in the       *)
(* firmware and are left out.                                              *)
(***************************************************************************)
EXTENDS Naturals, FiniteSets

CONSTANTS
  QLen,            \* MSGQUEUE_OBJECTS: the length of os_event
  NPipes,          \* how many pipes USBH_GetFreePipe looks at
  MaxErrorCount,   \* USBH_MAX_ERROR_COUNT
  MaxEnumRetry,    \* how often a refused descriptor resets the device: 3
  MaxReset,        \* how often a port that is not enabled is reset: 3
  ResetTimeout,    \* USBH_DEV_RESET_TIMEOUT, in polls of WAIT_FOR_ATTACHMENT
  Refusable,       \* the steps whose request the device may refuse
  LossyBus,        \* TRUE if transactions with a reachable device may fail
  QuickReplug,     \* TRUE if a device may be plugged in before the thread
                   \* has handled the unplugging of the last one
  AppPersists      \* TRUE if the application's thread goes on with a transfer
                   \* after the host has left the session it began in

ASSUME CoreAssumption ==
  /\ QLen \in Nat \ {0} /\ NPipes \in 1..255
  /\ MaxErrorCount \in Nat /\ MaxEnumRetry \in Nat
  /\ MaxReset \in Nat /\ ResetTimeout \in Nat
  /\ LossyBus \in BOOLEAN /\ QuickReplug \in BOOLEAN /\ AppPersists \in BOOLEAN

VARIABLES
  dev,             \* the device on the port: "none" or its USB device state
  raise,           \* the port will be enabled: the device answered the reset
  isConnected, isDisconnected, portEnabled,  \* phost->device, set by interrupts
  events,          \* the number of messages in os_event
  pc,              \* where the thread is: "wait" for a message, or inside a
                   \* handler that sleeps or blocks
  gState, enumState, rstCnt, enumCnt, timeout, address,
  busy, req, acked, failures,                \* ControlTransfer
  pipes,           \* the allocated entries of phost->Pipes
  ctlOut, ctlIn,   \* Control.pipe_out, Control.pipe_in
  mscOut, mscIn,   \* OutPipe and InPipe of the class handle
  mscState,        \* "none" if pActiveClass is NULL, "failed" if its Init
                   \* failed, else MSC_Handle->state
  appIO,           \* the application's thread is in USBH_MSC_Read or _Write
  appliState, mounted                        \* HostUser

portVars == <<dev, raise, isConnected, isDisconnected, portEnabled>>
counters == <<rstCnt, enumCnt, timeout>>
enumVars == <<enumState, counters, address>>
ctlVars  == <<busy, req, acked, failures>>
pipeNos  == <<ctlOut, ctlIn, mscOut, mscIn>>
mscVars  == <<mscState, appIO>>
userVars == <<appliState, mounted>>
coreVars == <<portVars, events, pc, gState, enumVars, ctlVars, pipes, pipeNos,
              mscVars, userVars>>

DescriptorSteps ==
  {"ENUM_IDLE", "ENUM_GET_FULL_DEV_DESC", "ENUM_GET_CFG_DESC", "ENUM_GET_FULL_CFG_DESC"}
StringSteps ==
  {"ENUM_GET_MFC_STRING_DESC", "ENUM_GET_PRODUCT_STRING_DESC",
   "ENUM_GET_SERIALNUM_STRING_DESC"}
EnumStates == DescriptorSteps \union StringSteps \union {"ENUM_SET_ADDR"}

HostStates ==
  {"HOST_IDLE", "HOST_DEV_WAIT_FOR_ATTACHMENT", "HOST_DEV_ATTACHED",
   "HOST_ENUMERATION", "HOST_INPUT", "HOST_SET_CONFIGURATION",
   "HOST_SET_WAKEUP_FEATURE", "HOST_CHECK_CLASS", "HOST_CLASS_REQUEST",
   "HOST_CLASS", "HOST_ABORT_STATE"}

(* The steps that send a control request, and the request of each: those   *)
(* that read have an IN data stage, the others have none.                  *)
Reads == DescriptorSteps \union StringSteps \union {"HOST_CLASS_REQUEST"}
Writes == {"ENUM_SET_ADDR", "HOST_SET_CONFIGURATION", "HOST_SET_WAKEUP_FEATURE", "HOST_CLASS"}
Request(step) ==
  [step |-> step, dir |-> IF step \in Reads THEN "D2H" ELSE "H2D", data |-> step \in Reads]
Requests == {Request(step) : step \in Reads \union Writes}

Ctl == INSTANCE ControlTransfer

NoPipe == 255
AllPipes == 0 .. NPipes - 1

CoreTypeOK ==
  /\ dev \in {"none", "powered", "default", "addressed", "configured"}
  /\ raise \in BOOLEAN
  /\ isConnected \in BOOLEAN /\ isDisconnected \in BOOLEAN /\ portEnabled \in BOOLEAN
  /\ events \in 0..QLen
  /\ pc \in {"wait", "settle", "attach", "teardown"}
  /\ gState \in HostStates /\ enumState \in EnumStates
  /\ rstCnt \in 0..(MaxReset + 1) /\ enumCnt \in 0..(MaxEnumRetry + 1)
  /\ timeout \in 0..(ResetTimeout + 1) /\ address \in {0, 1}
  /\ busy \in BOOLEAN /\ req \in Requests /\ acked \subseteq Ctl!Stages
  /\ failures \in 0..MaxErrorCount
  /\ pipes \subseteq AllPipes
  /\ {ctlOut, ctlIn, mscOut, mscIn} \subseteq AllPipes \union {NoPipe}
  /\ mscState \in {"none", "failed", "MSC_INIT", "MSC_IDLE", "MSC_READ"} /\ appIO \in BOOLEAN
  /\ appliState \in {"IDLE", "START", "READY", "DISCONNECT"} /\ mounted \in BOOLEAN

----------------------------------------------------------------------------
(* The message queue: a message that finds it full is dropped.             *)
Capped(n) == IF n > QLen THEN QLen ELSE n

Notify == events' = Capped(events + 1)

(* The thread takes a message, and the handler leaves n behind.            *)
Take(n) == pc = "wait" /\ events > 0 /\ events' = Capped(events - 1 + n)

(* USBH_Process first checks for a pending disconnection.                  *)
At(state) == ~isDisconnected /\ gState = state

(* USBH_AllocPipe: the pipe returned, the one free pipe below all others,  *)
(* or 255, which is no pipe of the pool but is used like one.              *)
FreePipe(used) ==
  IF AllPipes \subseteq used THEN {NoPipe}
  ELSE {p \in AllPipes \ used : \A q \in AllPipes \ used : p <= q}

(* Variant: the first pipe is not marked before the second is looked for.  *)
AllocUnmarked(first, second) ==
  /\ first \in FreePipe(pipes) /\ second \in FreePipe(pipes)
  /\ pipes' = (pipes \union {first, second}) \ {NoPipe}

(* Two pipes are allocated, one after the other.                           *)
Alloc(first, second) ==
  /\ first \in FreePipe(pipes)
  /\ second \in FreePipe(pipes \union {first})
  /\ pipes' = (pipes \union {first, second}) \ {NoPipe}

FreeControlPipes == pipes' = pipes \ {ctlOut, ctlIn}

----------------------------------------------------------------------------
(* Control requests.                                                       *)

(* The device hears the host: it has the address the host uses.            *)
Reachable ==
  /\ portEnabled /\ dev \in {"default", "addressed", "configured"}
  /\ address = 0 <=> dev = "default"

TransactionsFail == LossyBus \/ (~Reachable /\ acked # Ctl!Required(req))

(* There is a class handle: each call of the class fetches it again.       *)
ClassOpen == mscState \in {"MSC_INIT", "MSC_IDLE", "MSC_READ"}

(* The step whose request the state machine is at.                         *)
CurrentStep == IF gState = "HOST_ENUMERATION" THEN enumState ELSE gState

(* One call of USBH_CtlReq for the request of a step: n is the number of   *)
(* messages it leaves.                                                     *)
CtlReq(step, status, n) ==
  \/ /\ status = "BUSY" /\ n = 1
     /\ Ctl!Begin /\ req' = Request(step)
  \/ /\ status = "BUSY" /\ n \in {1, 2} /\ busy
     /\ UNCHANGED ctlVars
  \/ /\ status = "BUSY" /\ n = 1 /\ TransactionsFail
     /\ Ctl!TryAgain
  \/ /\ status = "OK" /\ n = 2
     /\ Ctl!Succeed
  \/ /\ status = "NOT_SUPPORTED" /\ n = 2
     /\ req.step \in Refusable /\ acked = {"SETUP"}
     /\ Ctl!Refuse
  \/ /\ status = "FAIL" /\ n = 1 /\ TransactionsFail
     /\ Ctl!GiveUp

(* A step of the state machine that calls USBH_CtlReq and leaves `more'    *)
(* messages of its own.                                                    *)
CallAt(state, status, more) ==
  At(state) /\ \E n \in 1..2 : CtlReq(CurrentStep, status, n) /\ Take(n + more)

(* What a step that sends a request leaves alone in any case.              *)
Apart == UNCHANGED <<portVars, pc, pipeNos, mscVars, userVars>>

(* The request is not answered yet.                                        *)
Pending == Apart /\ UNCHANGED <<gState, enumVars, pipes>>

(* CTRL_ERROR with no attempt left: the control pipes are freed and the    *)
(* host returns to HOST_IDLE; EnumState stays as it is.                    *)
GivenUp == Apart /\ FreeControlPipes /\ gState' = "HOST_IDLE" /\ UNCHANGED enumVars

----------------------------------------------------------------------------
(* HOST_IDLE: wait 200 ms, then reset the port.                            *)

IdleEmpty ==
  /\ At("HOST_IDLE") /\ ~isConnected /\ Take(0)
  /\ Pending /\ UNCHANGED ctlVars

IdleConnected ==
  /\ At("HOST_IDLE") /\ isConnected /\ Take(0)
  /\ gState' = "HOST_DEV_WAIT_FOR_ATTACHMENT" /\ pc' = "settle"
  /\ UNCHANGED <<portVars, enumVars, ctlVars, pipes, pipeNos, mscVars, userVars>>

(* Variant: no message is left for HOST_DEV_WAIT_FOR_ATTACHMENT.           *)
ResetPortSilently ==
  /\ pc = "settle" /\ pc' = "wait"
  /\ portEnabled' = FALSE
  /\ dev' = IF dev = "none" THEN "none" ELSE "default"
  /\ raise' \in IF dev = "none" THEN {FALSE} ELSE BOOLEAN
  /\ address' = 0 /\ timeout' = 0
  /\ UNCHANGED <<isConnected, isDisconnected, gState, enumState, rstCnt, enumCnt,
                 ctlVars, pipes, pipeNos, mscVars, userVars, events>>

ResetPort ==
  /\ pc = "settle" /\ pc' = "wait" /\ Notify
  /\ portEnabled' = FALSE
  /\ dev' = IF dev = "none" THEN "none" ELSE "default"
  /\ raise' \in IF dev = "none" THEN {FALSE} ELSE BOOLEAN
  /\ address' = 0 /\ timeout' = 0
  /\ UNCHANGED <<isConnected, isDisconnected, gState, enumState, rstCnt, enumCnt,
                 ctlVars, pipes, pipeNos, mscVars, userVars>>

(* Variant: a port that is never enabled is reset for ever.                *)
WaitForEver ==
  /\ At("HOST_DEV_WAIT_FOR_ATTACHMENT") /\ Take(1)
  /\ \/ /\ portEnabled /\ rstCnt' = 0 /\ gState' = "HOST_DEV_ATTACHED"
        /\ UNCHANGED timeout
     \/ /\ ~portEnabled /\ timeout > ResetTimeout
        /\ rstCnt' = rstCnt + 1 /\ gState' = "HOST_IDLE"
        /\ UNCHANGED timeout
     \/ /\ ~portEnabled /\ timeout <= ResetTimeout
        /\ timeout' = timeout + 1
        /\ UNCHANGED <<rstCnt, gState>>
  /\ Apart /\ UNCHANGED <<enumState, enumCnt, address, ctlVars, pipes>>

(* HOST_DEV_WAIT_FOR_ATTACHMENT: poll for the port to be enabled.          *)
WaitForAttachment ==
  /\ At("HOST_DEV_WAIT_FOR_ATTACHMENT") /\ Take(1)
  /\ \/ /\ portEnabled /\ rstCnt' = 0 /\ gState' = "HOST_DEV_ATTACHED"
        /\ UNCHANGED timeout
     \/ /\ ~portEnabled /\ timeout > ResetTimeout
        /\ rstCnt' = rstCnt + 1
        /\ gState' = IF rstCnt' > MaxReset THEN "HOST_ABORT_STATE" ELSE "HOST_IDLE"
        /\ UNCHANGED timeout
     \/ /\ ~portEnabled /\ timeout <= ResetTimeout
        /\ timeout' = timeout + 1
        /\ UNCHANGED <<rstCnt, gState>>
  /\ Apart /\ UNCHANGED <<enumState, enumCnt, address, ctlVars, pipes>>

(* HOST_DEV_ATTACHED: announce the device, wait 100 ms, open the pipes.    *)

AttachedUser ==
  /\ At("HOST_DEV_ATTACHED") /\ Take(0) /\ pc' = "attach"
  /\ appliState' = "START"
  /\ UNCHANGED <<portVars, gState, enumVars, ctlVars, pipes, pipeNos, mscVars, mounted>>

AttachedOpen ==
  /\ pc = "attach" /\ pc' = "wait" /\ Notify
  /\ gState' = "HOST_ENUMERATION"
  /\ Alloc(ctlOut', ctlIn')
  /\ UNCHANGED <<portVars, enumVars, ctlVars, mscOut, mscIn, mscVars, userVars>>

----------------------------------------------------------------------------
(* HOST_ENUMERATION: USBH_HandleEnum.                                      *)

NextStep ==
  [ENUM_IDLE                    |-> "ENUM_GET_FULL_DEV_DESC",
   ENUM_GET_FULL_DEV_DESC       |-> "ENUM_SET_ADDR",
   ENUM_SET_ADDR                |-> "ENUM_GET_CFG_DESC",
   ENUM_GET_CFG_DESC            |-> "ENUM_GET_FULL_CFG_DESC",
   ENUM_GET_FULL_CFG_DESC       |-> "ENUM_GET_MFC_STRING_DESC",
   ENUM_GET_MFC_STRING_DESC     |-> "ENUM_GET_PRODUCT_STRING_DESC",
   ENUM_GET_PRODUCT_STRING_DESC |-> "ENUM_GET_SERIALNUM_STRING_DESC"]

EnumCall(status, more) == CallAt("HOST_ENUMERATION", status, more)

EnumNext == enumState' = NextStep[enumState] /\ UNCHANGED <<gState, counters, pipes>>

EnumBusy == EnumCall("BUSY", 0) /\ Pending

EnumGiveUp == EnumCall("FAIL", 0) /\ GivenUp

EnumDescriptor ==
  /\ enumState \in DescriptorSteps /\ EnumCall("OK", 0)
  /\ EnumNext /\ Apart /\ UNCHANGED address

(* Variants: the enumeration goes on after the reset where it was, and a   *)
(* refusal is not counted.                                                 *)
RefusedGoesOn ==
  /\ enumState \in DescriptorSteps /\ EnumCall("NOT_SUPPORTED", 0)
  /\ enumCnt' = enumCnt + 1
  /\ IF enumCnt' > MaxEnumRetry
       THEN gState' = "HOST_ABORT_STATE" /\ UNCHANGED <<enumState, pipes>>
       ELSE gState' = "HOST_IDLE" /\ UNCHANGED enumState /\ FreeControlPipes
  /\ Apart /\ UNCHANGED <<rstCnt, timeout, address>>

RefusedUncounted ==
  /\ enumState \in DescriptorSteps /\ EnumCall("NOT_SUPPORTED", 0)
  /\ gState' = "HOST_IDLE" /\ enumState' = "ENUM_IDLE" /\ FreeControlPipes
  /\ Apart /\ UNCHANGED <<counters, address>>

(* A device that refuses a descriptor is reset and enumerated again, and   *)
(* given up when it refused too often.                                     *)
EnumDescriptorRefused ==
  /\ enumState \in DescriptorSteps /\ EnumCall("NOT_SUPPORTED", 0)
  /\ enumCnt' = enumCnt + 1
  /\ IF enumCnt' > MaxEnumRetry
       THEN gState' = "HOST_ABORT_STATE" /\ UNCHANGED <<enumState, pipes>>
       ELSE gState' = "HOST_IDLE" /\ enumState' = "ENUM_IDLE" /\ FreeControlPipes
  /\ Apart /\ UNCHANGED <<rstCnt, timeout, address>>

EnumSetAddress ==
  /\ enumState = "ENUM_SET_ADDR" /\ EnumCall("OK", 0)
  /\ address' = 1
  /\ EnumNext /\ Apart

EnumSetAddressRefused ==
  /\ enumState = "ENUM_SET_ADDR" /\ EnumCall("NOT_SUPPORTED", 0)
  /\ gState' = "HOST_ABORT_STATE" /\ enumState' = "ENUM_IDLE"
  /\ Apart /\ UNCHANGED <<counters, address, pipes>>

(* A string is read if the device has one (its index is not 0); that the   *)
(* device refuses it does not matter.                                      *)
StringDone(onOk) ==
  \/ EnumCall("OK", onOk)
  \/ EnumCall("NOT_SUPPORTED", 1)
  \/ At("HOST_ENUMERATION") /\ ~busy /\ Take(1) /\ UNCHANGED ctlVars

EnumString ==
  /\ \/ enumState = "ENUM_GET_MFC_STRING_DESC" /\ StringDone(1)
     \/ enumState = "ENUM_GET_PRODUCT_STRING_DESC" /\ StringDone(0)
  /\ EnumNext /\ Apart /\ UNCHANGED address

(* The last step: EnumState stays where it is.  A device with several      *)
(* configurations passes through HOST_INPUT.                               *)
EnumLastString ==
  /\ enumState = "ENUM_GET_SERIALNUM_STRING_DESC" /\ StringDone(1)
  /\ gState' \in {"HOST_SET_CONFIGURATION", "HOST_INPUT"}
  /\ Apart /\ UNCHANGED <<enumVars, pipes>>

Enumeration ==
  \/ EnumBusy \/ EnumGiveUp \/ EnumDescriptor \/ EnumDescriptorRefused
  \/ EnumSetAddress \/ EnumSetAddressRefused \/ EnumString \/ EnumLastString

----------------------------------------------------------------------------
(* From the enumerated device to the class.                                *)

Input ==
  /\ At("HOST_INPUT") /\ Take(1)
  /\ gState' = "HOST_SET_CONFIGURATION"
  /\ Apart /\ UNCHANGED <<enumVars, ctlVars, pipes>>

(* A refusal of the request is not handled: it is sent again.              *)
Configure(state, next) ==
  \/ \E status \in {"BUSY", "NOT_SUPPORTED"} : CallAt(state, status, 1) /\ Pending
  \/ CallAt(state, "FAIL", 1) /\ GivenUp
  \/ CallAt(state, "OK", 1) /\ gState' = next /\ Apart /\ UNCHANGED <<enumVars, pipes>>

SetConfiguration == Configure("HOST_SET_CONFIGURATION", "HOST_SET_WAKEUP_FEATURE")

(* Only a device that can wake up the host is asked to.                    *)
SetWakeupFeature ==
  \/ Configure("HOST_SET_WAKEUP_FEATURE", "HOST_CHECK_CLASS")
  \/ /\ At("HOST_SET_WAKEUP_FEATURE") /\ ~busy /\ Take(1)
     /\ gState' = "HOST_CHECK_CLASS"
     /\ Apart /\ UNCHANGED <<enumVars, ctlVars, pipes>>

(* The device's class is not ours, there is no memory for the handle, its  *)
(* interface is no good (then a handle that was left over stays), or       *)
(* USBH_MSC_InterfaceInit opens two pipes.                                 *)
CheckClass ==
  /\ At("HOST_CHECK_CLASS") /\ Take(1)
  /\ \/ /\ \/ mscState' \in {"none", "failed"}
           \/ ClassOpen /\ UNCHANGED mscState
        /\ gState' = "HOST_ABORT_STATE"
        /\ UNCHANGED <<pipes, mscOut, mscIn>>
     \/ /\ mscState' = "MSC_INIT" /\ gState' = "HOST_CLASS_REQUEST"
        /\ Alloc(mscOut', mscIn')
  /\ UNCHANGED <<portVars, pc, enumVars, ctlVars, ctlOut, ctlIn, appIO, userVars>>

(* GetMaxLUN: a refusal stands for one unit; giving up overrides the       *)
(* HOST_IDLE of CTRL_ERROR.                                                *)
ClassRequest ==
  \/ CallAt("HOST_CLASS_REQUEST", "BUSY", 1) /\ Pending
  \/ /\ \E status \in {"OK", "NOT_SUPPORTED"} : CallAt("HOST_CLASS_REQUEST", status, 1)
     /\ gState' = "HOST_CLASS"
     /\ Apart /\ UNCHANGED <<enumVars, pipes>>
  \/ /\ CallAt("HOST_CLASS_REQUEST", "FAIL", 1)
     /\ gState' = "HOST_ABORT_STATE"
     /\ FreeControlPipes
     /\ Apart /\ UNCHANGED enumVars

(* HOST_CLASS, the medium is being examined: the bulk transfers go on, or  *)
(* a stalled bulk endpoint is cleared with a control request.              *)
ClassInit ==
  /\ mscState = "MSC_INIT"
  /\ \/ At("HOST_CLASS") /\ ~busy /\ Take(1) /\ Pending /\ UNCHANGED ctlVars
     \/ \E status \in {"BUSY", "OK", "NOT_SUPPORTED"} :
          CallAt("HOST_CLASS", status, 1) /\ Pending
     \/ CallAt("HOST_CLASS", "FAIL", 1) /\ GivenUp

(* Variant: the class stays in MSC_INIT after the callback.                *)
ClassActiveAgain ==
  /\ At("HOST_CLASS") /\ mscState = "MSC_INIT" /\ ~busy /\ Take(1)
  /\ appliState' = "READY" /\ mounted' \in {mounted, TRUE}
  /\ UNCHANGED <<portVars, pc, gState, enumVars, ctlVars, pipes, pipeNos, mscVars>>

(* All units are examined: the user mounts the file system.                *)
ClassActive ==
  /\ At("HOST_CLASS") /\ mscState = "MSC_INIT" /\ ~busy /\ Take(1)
  /\ mscState' = "MSC_IDLE"
  /\ appliState' = "READY" /\ mounted' \in {mounted, TRUE}
  /\ UNCHANGED <<portVars, pc, gState, enumVars, ctlVars, pipes, pipeNos, appIO>>

ClassIdle ==
  /\ At("HOST_CLASS") /\ mscState \in {"MSC_IDLE", "MSC_READ"} /\ Take(0)
  /\ Pending /\ UNCHANGED ctlVars

Aborted ==
  /\ At("HOST_ABORT_STATE") /\ Take(0)
  /\ Pending /\ UNCHANGED ctlVars

----------------------------------------------------------------------------
(* HOST_DEV_DISCONNECTED: everything is reset, the user closes files and   *)
(* unmounts, which may block, and the controller is started again.         *)

(* Variant: RequestState is not reset.                                     *)
DisconnectedMidRequest ==
  /\ isDisconnected /\ Take(0) /\ pc' = "teardown"
  /\ isDisconnected' = FALSE
  /\ pipes' = {} /\ gState' = "HOST_IDLE" /\ enumState' = "ENUM_IDLE"
  /\ failures' = 0
  /\ address' = 0 /\ rstCnt' = 0 /\ enumCnt' = 0
  /\ mscState' = "none"
  /\ UNCHANGED <<dev, raise, isConnected, portEnabled, timeout, busy, req, acked, pipeNos,
                 appIO, userVars>>

(* Variant: the class and its handle are kept.                             *)
DisconnectedClassKept ==
  /\ isDisconnected /\ Take(0) /\ pc' = "teardown"
  /\ isDisconnected' = FALSE
  /\ pipes' = {} /\ gState' = "HOST_IDLE" /\ enumState' = "ENUM_IDLE"
  /\ busy' = FALSE /\ failures' = 0
  /\ address' = 0 /\ rstCnt' = 0 /\ enumCnt' = 0
  /\ UNCHANGED <<dev, raise, isConnected, portEnabled, timeout, req, acked, pipeNos, mscVars,
                 userVars>>

(* Variant: the pipes stay allocated.                                      *)
DisconnectedPipesKept ==
  /\ isDisconnected /\ Take(0) /\ pc' = "teardown"
  /\ isDisconnected' = FALSE
  /\ gState' = "HOST_IDLE" /\ enumState' = "ENUM_IDLE"
  /\ busy' = FALSE /\ failures' = 0
  /\ address' = 0 /\ rstCnt' = 0 /\ enumCnt' = 0
  /\ mscState' = "none"
  /\ UNCHANGED <<dev, raise, isConnected, portEnabled, timeout, req, acked, pipes, pipeNos,
                 appIO, userVars>>

Disconnected ==
  /\ isDisconnected /\ Take(0) /\ pc' = "teardown"
  /\ isDisconnected' = FALSE
  /\ pipes' = {} /\ gState' = "HOST_IDLE" /\ enumState' = "ENUM_IDLE"
  /\ busy' = FALSE /\ failures' = 0
  /\ address' = 0 /\ rstCnt' = 0 /\ enumCnt' = 0
  /\ mscState' = "none"
  /\ UNCHANGED <<dev, raise, isConnected, portEnabled, timeout, req, acked, pipeNos, appIO,
                 userVars>>

Restart ==
  /\ pc = "teardown" /\ pc' = "wait" /\ Notify
  /\ appliState' = "DISCONNECT" /\ mounted' = FALSE
  /\ UNCHANGED <<portVars, gState, enumVars, ctlVars, pipes, pipeNos, mscVars>>

Thread ==
  \/ IdleEmpty \/ IdleConnected \/ ResetPort \/ WaitForAttachment
  \/ AttachedUser \/ AttachedOpen \/ Enumeration \/ Input
  \/ SetConfiguration \/ SetWakeupFeature \/ CheckClass \/ ClassRequest
  \/ ClassInit \/ ClassActive \/ ClassIdle \/ Aborted
  \/ Disconnected \/ Restart

----------------------------------------------------------------------------
(* The application's thread: USBH_MSC_Read and USBH_MSC_Write.  They check *)
(* the host before the first command only; then they call                  *)
(* USBH_MSC_RdWrProcess until the command is over, the time is up or       *)
(* is_connected is found 0.  Every call leaves a message.                  *)

AppActs ==
  /\ appIO /\ ClassOpen
  /\ AppPersists \/ (gState = "HOST_CLASS" /\ mscState = "MSC_READ")

AppBegins ==
  /\ ~appIO /\ mounted /\ isConnected /\ gState = "HOST_CLASS" /\ ClassOpen
  /\ appIO' = TRUE /\ mscState' = "MSC_READ"
  /\ UNCHANGED <<portVars, events, pc, gState, enumVars, ctlVars, pipes, pipeNos, userVars>>

(* A bulk transfer, or a call of USBH_CtlReq to clear a stalled endpoint.  *)
AppTransfers ==
  /\ AppActs /\ Notify
  /\ Pending /\ UNCHANGED ctlVars

AppClearsStall ==
  /\ AppActs
  /\ \E status \in {"BUSY", "OK", "NOT_SUPPORTED", "FAIL"}, n \in 1..2 :
       /\ CtlReq("HOST_CLASS", status, n) /\ events' = Capped(events + n + 1)
       /\ IF status = "FAIL" THEN GivenUp ELSE Pending

AppEnds ==
  /\ appIO /\ appIO' = FALSE
  /\ mscState' = IF AppActs THEN "MSC_IDLE" ELSE mscState
  /\ UNCHANGED <<portVars, events, pc, gState, enumVars, ctlVars, pipes, pipeNos, userVars>>

Application == AppBegins \/ AppTransfers \/ AppClearsStall \/ AppEnds

----------------------------------------------------------------------------
(* Interrupts.                                                             *)

Untouched == UNCHANGED <<pc, gState, enumVars, pipeNos, mscVars, userVars>>

(* USBH_LL_Connect: a pending disconnection is forgotten.                  *)
ConnectIrq ==
  /\ dev = "none" /\ (QuickReplug \/ ~isDisconnected)
  /\ dev' = "powered" /\ isConnected' = TRUE /\ isDisconnected' = FALSE
  /\ Notify
  /\ Untouched /\ UNCHANGED <<raise, portEnabled, ctlVars, pipes>>

(* Variant: the interrupt leaves no message.                               *)
DisconnectIrqSilent ==
  /\ dev # "none" /\ dev' = "none" /\ raise' = FALSE
  /\ isConnected' = FALSE /\ isDisconnected' = TRUE /\ portEnabled' = FALSE
  /\ FreeControlPipes
  /\ Untouched /\ UNCHANGED <<ctlVars, events>>

(* USBH_LL_Disconnect: the channels are stopped, the control pipes freed.  *)
DisconnectIrq ==
  /\ dev # "none" /\ dev' = "none" /\ raise' = FALSE
  /\ isConnected' = FALSE /\ isDisconnected' = TRUE /\ portEnabled' = FALSE
  /\ FreeControlPipes /\ Notify
  /\ Untouched /\ UNCHANGED ctlVars

PortEnabledIrq ==
  /\ raise /\ raise' = FALSE /\ portEnabled' = TRUE
  /\ Notify
  /\ Untouched /\ UNCHANGED <<dev, isConnected, isDisconnected, ctlVars, pipes>>

(* USBH_LL_PortDisabled leaves no message.                                 *)
PortDisabledIrq ==
  /\ LossyBus /\ portEnabled /\ portEnabled' = FALSE
  /\ Untouched /\ UNCHANGED <<dev, raise, isConnected, isDisconnected, events, ctlVars, pipes>>

(* The device takes the SETUP packet, then completes the request; only     *)
(* then does its address or its configuration change.                      *)
DeviceAcks ==
  /\ busy /\ Reachable
  /\ Ctl!DeviceAcks
  /\ \/ acked = {} /\ acked' = {"SETUP"} /\ UNCHANGED dev
     \/ /\ acked = {"SETUP"} /\ acked' = Ctl!Required(req)
        /\ dev' = CASE req.step = "ENUM_SET_ADDR" -> "addressed"
                    [] req.step = "HOST_SET_CONFIGURATION" /\ dev = "addressed" -> "configured"
                    [] OTHER -> dev
  /\ Notify
  /\ Untouched /\ UNCHANGED <<raise, isConnected, isDisconnected, portEnabled, pipes>>

(* Any other change of an URB, of a control or a bulk channel.             *)
NotifyURBChange ==
  /\ portEnabled /\ Notify
  /\ Untouched /\ UNCHANGED <<portVars, ctlVars, pipes>>

Interrupt ==
  \/ ConnectIrq \/ DisconnectIrq \/ PortEnabledIrq \/ PortDisabledIrq
  \/ DeviceAcks \/ NotifyURBChange

----------------------------------------------------------------------------
(* USBH_Init and USBH_Start have run, and the thread waits.                *)
CoreInit ==
  /\ dev = "none" /\ raise = FALSE
  /\ isConnected = FALSE /\ isDisconnected = FALSE /\ portEnabled = FALSE
  /\ events = 0 /\ pc = "wait"
  /\ gState = "HOST_IDLE" /\ enumState = "ENUM_IDLE"
  /\ rstCnt = 0 /\ enumCnt = 0 /\ timeout = 0 /\ address = 0
  /\ busy = FALSE /\ req = Request("ENUM_IDLE") /\ acked = {} /\ failures = 0
  /\ pipes = {} /\ ctlOut = 0 /\ ctlIn = 0 /\ mscOut = 0 /\ mscIn = 0
  /\ mscState = "none" /\ appIO = FALSE /\ appliState = "IDLE" /\ mounted = FALSE

CoreNext == Thread \/ Application \/ Interrupt

CoreSpec == CoreInit /\ [][CoreNext]_coreVars

(* An answer of a control request to the USB thread.                       *)
Answer == Thread /\ busy /\ ~busy'

Acknowledges == DeviceAcks /\ acked' # acked

(* The thread is scheduled; the device answers the requests it hears, and  *)
(* so does the engine (Answered in UsbhControl); the units of a medium are *)
(* examined some day.                                                      *)
CoreFairSpec ==
  /\ CoreSpec
  /\ WF_coreVars(Thread) /\ WF_coreVars(Acknowledges)
  /\ SF_coreVars(Answer) /\ SF_coreVars(ClassActive)

----------------------------------------------------------------------------
(* Properties.                                                             *)

(* usbh_core.c: every state that has work to do is waiting for a message   *)
(* that is in the queue, however the interrupts and a full queue cut in: a *)
(* pending disconnection, a device HOST_IDLE has not seen yet, a state     *)
(* that polls itself.                                                      *)
Polling ==
  \/ gState \notin {"HOST_IDLE", "HOST_CLASS", "HOST_ABORT_STATE"}
  \/ gState = "HOST_CLASS" /\ mscState = "MSC_INIT"

NoLostWakeup ==
  pc = "wait" /\ (isDisconnected \/ (gState = "HOST_IDLE" /\ isConnected) \/ Polling)
    => events > 0

(* usbh_ctlreq.c, RequestState: the one outstanding control request is the *)
(* request of the step the host is at, so no step takes the answer to the  *)
(* request of another, of an earlier enumeration or of an earlier device.  *)
(* Only an application that outlives its session may cut in, and only with *)
(* the one request it sends.                                               *)
OwnSteps == {CurrentStep} \union (IF AppPersists THEN {"HOST_CLASS"} ELSE {})
OwnRequest == busy => \E step \in OwnSteps : req = Request(step)

(* usbh_ctlreq.c, "USBH_CtlReq sends a control request and provide the     *)
(* status after completion of the request": the enumeration only moves on  *)
(* with the answer to its own request, also when the application's thread  *)
(* sends requests.                                                         *)
OwnAnswer ==
  [][gState = "HOST_ENUMERATION" /\ ~isDisconnected /\ busy
       /\ (enumState' # enumState \/ gState' \in {"HOST_INPUT", "HOST_SET_CONFIGURATION"})
     => req.step = enumState]_coreVars

(* usbh_pipes.c: the pipes in use.  USBH_AllocPipe answers 255 when none    *)
(* is free; USBH_OpenPipe opens it like any other, and hc[255] is behind   *)
(* the array: two users of 255 share it, and memory that is not a pipe's.  *)
ControlOpen ==
  gState \in HostStates \ {"HOST_IDLE", "HOST_DEV_WAIT_FOR_ATTACHMENT",
                           "HOST_DEV_ATTACHED", "HOST_ABORT_STATE"}
InUse == (IF ControlOpen THEN {ctlOut, ctlIn} ELSE {}) \union
         (IF ClassOpen THEN {mscOut, mscIn} ELSE {})

(* No pipe is free, but for what the control pipes give back.              *)
PoolDry == AllPipes \subseteq pipes \union {ctlOut, ctlIn}

(* usbh_pipes.c, after any number of give-ups, each of which may leave two *)
(* pipes of a class behind: two users never have the same pipe of the      *)
(* pool, a pipe in use is allocated, and 255 is only in use when the pool  *)
(* was dry.                                                                *)
PipeOwnership ==
  ~isDisconnected =>
    /\ InUse \ {NoPipe} \subseteq pipes
    /\ ControlOpen => (ctlOut = ctlIn => ctlOut = NoPipe)
    /\ ClassOpen   => (mscOut = mscIn => mscOut = NoPipe)
    /\ ControlOpen /\ ClassOpen => {ctlOut, ctlIn} \intersect {mscOut, mscIn} \subseteq {NoPipe}
    /\ NoPipe \in InUse => PoolDry

(* The pipes in use are different pipes of the pool, 255 is none of them.  *)
OwnPipes ==
  ~isDisconnected =>
    /\ InUse \subseteq pipes
    /\ ControlOpen => ctlOut # ctlIn
    /\ ClassOpen   => mscOut # mscIn
    /\ ControlOpen /\ ClassOpen => {ctlOut, ctlIn} \intersect {mscOut, mscIn} = {}

(* usbh_core.c, "The function shall return USBH_OK when full enumeration   *)
(* is complete": a device the host configures has the address the host     *)
(* uses, and a device a class is chosen for has been configured.           *)
EnumComplete ==
  ~isDisconnected =>
    /\ gState \in {"HOST_INPUT", "HOST_SET_CONFIGURATION"} =>
         address = 1 /\ dev \in {"addressed", "configured"}
    /\ gState \in {"HOST_SET_WAKEUP_FEATURE", "HOST_CHECK_CLASS", "HOST_CLASS_REQUEST",
                   "HOST_CLASS"} => address = 1 /\ dev = "configured"

(* usbh_core.c, "check for Host pending port disconnect event": a pending  *)
(* disconnection is handled.                                               *)
DisconnectHandled == isDisconnected ~> pc = "teardown"

(* usbh_core.c: a device that stays plugged in ends up ready for the user, *)
(* or the host gives it up, also when it is slow to be enabled or refuses  *)
(* descriptors: a disconnection re-initializes the host "for new           *)
(* Enumeration".                                                           *)
Settles ==
  dev # "none" ~>
    \/ dev = "none"
    \/ gState = "HOST_ABORT_STATE"
    \/ gState = "HOST_CLASS" /\ appliState = "READY" /\ dev = "configured"

(* No request is given up.                                                 *)
NoGiveUp == failures < MaxErrorCount

(* Nor is a port disabled that the host works with.                        *)
QuietBus ==
  /\ NoGiveUp
  /\ \/ portEnabled \/ dev = "none"
     \/ gState \in {"HOST_IDLE", "HOST_DEV_WAIT_FOR_ATTACHMENT", "HOST_ABORT_STATE"}

(* usbh_core.c: on a quiet bus EnumComplete and Settles hold whatever a    *)
(* device refuses, loses or delays and however often it is plugged in.     *)
EnumCompleteIfQuiet == []QuietBus => []EnumComplete
SettlesIfQuiet == []QuietBus => Settles

(* usbh_pipes.c, "Free Pipe number": while no request has to be given up,  *)
(* the pool does not run dry, however often a device is plugged in, reset  *)
(* and enumerated: every pipe that is opened is a pipe of its own.         *)
OwnPipesUnlessGivenUp == []NoGiveUp => []OwnPipes

(* usb_host.c, USBH_UserProcess: the callbacks keep the promises of        *)
(* HostUser.                                                               *)
User == INSTANCE HostUser
UserSpec == User!Spec

(* usbh_core.c and usbh_msc.c: the session of the class, as MscSession     *)
(* promises it to the code above.                                          *)
SessionNow ==
  IF pc = "teardown" THEN "closing"
  ELSE IF ~ClassOpen THEN "none"
  ELSE IF gState = "HOST_CLASS_REQUEST" THEN "opened"
  ELSE IF gState = "HOST_CLASS" THEN "class"
  ELSE "lost"

Session == INSTANCE MscSession WITH connected <- isConnected, session <- SessionNow
SessionSpec == Session!Spec

=============================================================================
