---------------------------- MODULE UsbhControl ----------------------------
(***************************************************************************)
(* The control-transfer engine of the USB host library (usbh_ctlreq.c) and *)
(* the part of the host controller driver it polls (stm32f4xx_hal_hcd.c).  *)
(*                                                                         *)
(* A caller keeps calling USBH_CtlReq with the request it wants until the  *)
(* answer is not USBH_BUSY.  Each call advances Control.state by one step: *)
(* it submits a stage of the transfer to the controller, or reads the URB  *)
(* state that the interrupt handler stored for the stage in flight.        *)
(*                                                                         *)
(* The specification at the end drives the engine with any caller; the     *)
(* host (UsbhCore) relies on what it promises, ControlTransfer.            *)
(***************************************************************************)
EXTENDS Naturals

CONSTANTS
  Requests,       \* the setup packets callers put in Control.setup
  MaxErrorCount   \* USBH_MAX_ERROR_COUNT

ASSUME ControlAssumption ==
  /\ \A r \in Requests : r.dir \in {"D2H", "H2D"} /\ r.data \in BOOLEAN
  /\ Requests # {}
  /\ MaxErrorCount \in Nat

VARIABLES
  requestState,   \* phost->RequestState
  ctrlState,      \* phost->Control.state
  errorcount,     \* phost->Control.errorcount
  setup,          \* phost->Control.setup
  urb,            \* hc[c].urb_state of the two channels of the control pipe
  active,         \* active[c]: the stage channel c is enabled for, or "none"
  wire            \* history: the stages completed on the wire since the attempt
                  \* began or, if later, since the device took a SETUP packet

ctlVars == <<requestState, ctrlState, errorcount, setup, urb, active, wire>>

CtrlStates ==
  {"CTRL_IDLE", "CTRL_SETUP", "CTRL_SETUP_WAIT", "CTRL_DATA_IN",
   "CTRL_DATA_IN_WAIT", "CTRL_DATA_OUT", "CTRL_DATA_OUT_WAIT",
   "CTRL_STATUS_IN", "CTRL_STATUS_IN_WAIT", "CTRL_STATUS_OUT",
   "CTRL_STATUS_OUT_WAIT", "CTRL_ERROR"}
UrbStates == {"IDLE", "DONE", "NOTREADY", "ERROR", "STALL"}
Stages    == {"SETUP", "DATA_IN", "DATA_OUT", "STATUS_IN", "STATUS_OUT"}
Status    == {"OK", "BUSY", "NOT_SUPPORTED", "FAIL"}

(* Control.pipe_out carries SETUP, DATA_OUT and STATUS_OUT packets,        *)
(* Control.pipe_in the others: two channels, each with its own URB.        *)
Channels == {"out", "in"}
ChannelOf(stage) == IF stage \in {"DATA_IN", "STATUS_IN"} THEN "in" ELSE "out"

CtlTypeOK ==
  /\ requestState \in {"CMD_SEND", "CMD_WAIT"}
  /\ ctrlState \in CtrlStates
  /\ errorcount \in 0..MaxErrorCount
  /\ setup \in Requests
  /\ urb \in [Channels -> UrbStates]
  /\ active \in [Channels -> Stages \union {"none"}]
  /\ wire \subseteq Stages

(* The stages of a transfer, from its setup packet: the data stage goes    *)
(* the way of bmRequestType, the status stage the opposite way, except     *)
(* that a device-to-host request without data ends with an OUT packet.     *)
DataStage(r)   == IF r.dir = "D2H" THEN "DATA_IN" ELSE "DATA_OUT"
StatusStage(r) == IF r.dir = "D2H" THEN "STATUS_OUT" ELSE "STATUS_IN"
StagesOf(r) ==
  {"SETUP", StatusStage(r)} \union (IF r.data THEN {DataStage(r)} ELSE {})

----------------------------------------------------------------------------
(* The thread's side: one call of USBH_HandleControl.  next and status are *)
(* the Control.state it leaves and the value it returns.                   *)

(* Variant: the URB state of the last stage survives a new submission.     *)
StaleSubmit(stage) ==
  UNCHANGED urb /\ active' = [active EXCEPT ![ChannelOf(stage)] = stage]

(* HAL_HCD_HC_SubmitRequest: the URB becomes idle, the channel is enabled. *)
Submit(stage) ==
  /\ urb' = [urb EXCEPT ![ChannelOf(stage)] = "IDLE"]
  /\ active' = [active EXCEPT ![ChannelOf(stage)] = stage]

NoSubmit == UNCHANGED <<urb, active>>

SendStage(state, stage, wait, next, status) ==
  /\ ctrlState = state /\ next = wait /\ status = "BUSY"
  /\ Submit(stage)
  /\ UNCHANGED errorcount

Setup(next, status) ==
  SendStage("CTRL_SETUP", "SETUP", "CTRL_SETUP_WAIT", next, status)

DataIn(next, status) ==
  SendStage("CTRL_DATA_IN", "DATA_IN", "CTRL_DATA_IN_WAIT", next, status)

DataOut(next, status) ==
  SendStage("CTRL_DATA_OUT", "DATA_OUT", "CTRL_DATA_OUT_WAIT", next, status)

StatusIn(next, status) ==
  SendStage("CTRL_STATUS_IN", "STATUS_IN", "CTRL_STATUS_IN_WAIT", next, status)

StatusOut(next, status) ==
  SendStage("CTRL_STATUS_OUT", "STATUS_OUT", "CTRL_STATUS_OUT_WAIT", next, status)

AfterSetup ==
  CASE setup.data  /\ setup.dir = "D2H" -> "CTRL_DATA_IN"
    [] setup.data  /\ setup.dir = "H2D" -> "CTRL_DATA_OUT"
    [] ~setup.data /\ setup.dir = "D2H" -> "CTRL_STATUS_OUT"
    [] ~setup.data /\ setup.dir = "H2D" -> "CTRL_STATUS_IN"

(* In each wait state the URB states the code does not name leave the      *)
(* state as it is: the caller will poll again.                             *)
SetupWait(next, status) ==
  /\ ctrlState = "CTRL_SETUP_WAIT" /\ status = "BUSY"
  /\ \/ urb["out"] = "DONE" /\ next = AfterSetup
     \/ urb["out"] \in {"ERROR", "NOTREADY"} /\ next = "CTRL_ERROR"
     \/ urb["out"] \in {"IDLE", "STALL"} /\ next = ctrlState
  /\ NoSubmit /\ UNCHANGED errorcount

DataInWait(next, status) ==
  /\ ctrlState = "CTRL_DATA_IN_WAIT"
  /\ \/ urb["in"] = "DONE" /\ next = "CTRL_STATUS_OUT" /\ status = "BUSY"
     \/ urb["in"] = "STALL" /\ next = ctrlState /\ status = "NOT_SUPPORTED"
     \/ urb["in"] = "ERROR" /\ next = "CTRL_ERROR" /\ status = "BUSY"
     \/ urb["in"] \in {"IDLE", "NOTREADY"} /\ next = ctrlState /\ status = "BUSY"
  /\ NoSubmit /\ UNCHANGED errorcount

(* The only wait state that answers USBH_FAIL to an error.                 *)
DataOutWait(next, status) ==
  /\ ctrlState = "CTRL_DATA_OUT_WAIT"
  /\ \/ urb["out"] = "DONE" /\ next = "CTRL_STATUS_IN" /\ status = "BUSY"
     \/ urb["out"] = "STALL" /\ next = ctrlState /\ status = "NOT_SUPPORTED"
     \/ urb["out"] = "NOTREADY" /\ next = "CTRL_DATA_OUT" /\ status = "BUSY"
     \/ urb["out"] = "ERROR" /\ next = "CTRL_ERROR" /\ status = "FAIL"
     \/ urb["out"] = "IDLE" /\ next = ctrlState /\ status = "BUSY"
  /\ NoSubmit /\ UNCHANGED errorcount

StatusInWait(next, status) ==
  /\ ctrlState = "CTRL_STATUS_IN_WAIT"
  /\ \/ urb["in"] = "DONE" /\ next = ctrlState /\ status = "OK"
     \/ urb["in"] = "STALL" /\ next = ctrlState /\ status = "NOT_SUPPORTED"
     \/ urb["in"] = "ERROR" /\ next = "CTRL_ERROR" /\ status = "BUSY"
     \/ urb["in"] \in {"IDLE", "NOTREADY"} /\ next = ctrlState /\ status = "BUSY"
  /\ NoSubmit /\ UNCHANGED errorcount

(* Variant: a NAK of an OUT status stage is ignored, as for an IN stage.   *)
DeafStatusOutWait(next, status) ==
  /\ ctrlState = "CTRL_STATUS_OUT_WAIT"
  /\ \/ urb["out"] = "DONE" /\ next = ctrlState /\ status = "OK"
     \/ urb["out"] = "ERROR" /\ next = "CTRL_ERROR" /\ status = "BUSY"
     \/ urb["out"] \in {"IDLE", "STALL", "NOTREADY"} /\ next = ctrlState /\ status = "BUSY"
  /\ NoSubmit /\ UNCHANGED errorcount

StatusOutWait(next, status) ==
  /\ ctrlState = "CTRL_STATUS_OUT_WAIT"
  /\ \/ urb["out"] = "DONE" /\ next = ctrlState /\ status = "OK"
     \/ urb["out"] = "NOTREADY" /\ next = "CTRL_STATUS_OUT" /\ status = "BUSY"
     \/ urb["out"] = "ERROR" /\ next = "CTRL_ERROR" /\ status = "BUSY"
     \/ urb["out"] \in {"IDLE", "STALL"} /\ next = ctrlState /\ status = "BUSY"
  /\ NoSubmit /\ UNCHANGED errorcount

(* Variants: errorcount++ instead of ++errorcount, and < instead of <=.    *)
RetryOnceMore(next, status) ==
  /\ ctrlState = "CTRL_ERROR" /\ errorcount <= MaxErrorCount
  /\ errorcount' = errorcount + 1
  /\ next = "CTRL_SETUP" /\ status = "BUSY"
  /\ NoSubmit

GiveUpEarly(next, status) ==
  /\ ctrlState = "CTRL_ERROR" /\ errorcount + 1 >= MaxErrorCount
  /\ errorcount' = 0
  /\ next = ctrlState /\ status = "FAIL"
  /\ NoSubmit

(* CTRL_ERROR: try again from the SETUP packet, or give up.  Giving up     *)
(* also frees the control pipes and returns the host to HOST_IDLE: that    *)
(* part belongs to the caller's state.                                     *)
Retry(next, status) ==
  /\ ctrlState = "CTRL_ERROR" /\ errorcount + 1 <= MaxErrorCount
  /\ errorcount' = errorcount + 1
  /\ next = "CTRL_SETUP" /\ status = "BUSY"
  /\ NoSubmit

GiveUp(next, status) ==
  /\ ctrlState = "CTRL_ERROR" /\ errorcount + 1 > MaxErrorCount
  /\ errorcount' = 0
  /\ next = ctrlState /\ status = "FAIL"
  /\ NoSubmit

HandleControl(next, status) ==
  \/ Setup(next, status)    \/ SetupWait(next, status)
  \/ DataIn(next, status)   \/ DataInWait(next, status)
  \/ DataOut(next, status)  \/ DataOutWait(next, status)
  \/ StatusIn(next, status) \/ StatusInWait(next, status)
  \/ StatusOut(next, status) \/ StatusOutWait(next, status)
  \/ Retry(next, status)    \/ GiveUp(next, status)

----------------------------------------------------------------------------
(* One call of USBH_CtlReq for request r.  The request functions fill in   *)
(* Control.setup only when RequestState is CMD_SEND.                       *)

StartRequest(r, status) ==
  /\ requestState = "CMD_SEND" /\ status = "BUSY"
  /\ setup' = r
  /\ ctrlState' = "CTRL_SETUP"
  /\ requestState' = "CMD_WAIT"
  /\ wire' = {}
  /\ UNCHANGED <<errorcount, urb, active>>

ContinueRequest(status) ==
  \E next \in CtrlStates :
    /\ requestState = "CMD_WAIT"
    /\ HandleControl(next, status)
    /\ ctrlState' = IF status \in {"OK", "NOT_SUPPORTED"} THEN "CTRL_IDLE" ELSE next
    /\ requestState' = IF status # "BUSY" \/ next = "CTRL_SETUP"
                       THEN "CMD_SEND" ELSE "CMD_WAIT"
    /\ UNCHANGED <<setup, wire>>

CtlReq(r, status) == StartRequest(r, status) \/ ContinueRequest(status)

----------------------------------------------------------------------------
(* The controller's side: the channel interrupt handlers store the URB     *)
(* state.  A stage that is done or stalled halts its channel, and so do a  *)
(* NAK of an OUT stage and a babble.  After a NAK of an IN stage and after *)
(* a transaction error the handler re-activates the channel: a later       *)
(* interrupt may overwrite the URB state before the thread reads it, and   *)
(* an IN channel may outlive the attempt it was submitted for.             *)

ChannelIrq(c, state, halted) ==
  /\ active[c] # "none"
  /\ urb' = [urb EXCEPT ![c] = state]
  /\ active' = IF halted THEN [active EXCEPT ![c] = "none"] ELSE active
  /\ UNCHANGED <<requestState, ctrlState, errorcount, setup>>

Complete(stage) ==
  wire' = IF stage = "SETUP" THEN {"SETUP"} ELSE wire \union {stage}

UrbDone(c) == ChannelIrq(c, "DONE", TRUE) /\ Complete(active[c])

(* A device never refuses a SETUP packet.                                  *)
UrbStall(c) ==
  /\ active[c] # "SETUP"
  /\ ChannelIrq(c, "STALL", TRUE) /\ UNCHANGED wire

UrbNak(c) ==
  /\ active[c] # "SETUP"
  /\ ChannelIrq(c, "NOTREADY", c = "out") /\ UNCHANGED wire

(* A transaction error; the fourth in a row is reported as URB_ERROR.  The *)
(* device may have taken an OUT packet whose handshake was lost.           *)
UrbError(c) ==
  /\ \E state \in {"NOTREADY", "ERROR"} : ChannelIrq(c, state, FALSE)
  /\ UNCHANGED wire \/ (c = "out" /\ Complete(active[c]))

UrbBabble == ChannelIrq("in", "ERROR", TRUE) /\ UNCHANGED wire

UrbIrq ==
  \/ UrbBabble
  \/ \E c \in Channels : UrbDone(c) \/ UrbStall(c) \/ UrbNak(c) \/ UrbError(c)

----------------------------------------------------------------------------
(* The engine alone: a caller that never stops polling, and the device.    *)

CtlInit ==
  /\ requestState = "CMD_SEND" /\ ctrlState = "CTRL_SETUP" /\ errorcount = 0
  /\ setup \in Requests
  /\ urb = [c \in Channels |-> "IDLE"] /\ active = [c \in Channels |-> "none"]
  /\ wire = {}

Poll == \E r \in Requests, status \in Status : CtlReq(r, status)

CtlNext == Poll \/ UrbIrq

CtlSpec == CtlInit /\ [][CtlNext]_ctlVars

(* The stage whose URB the wait state reads.                               *)
Awaited ==
  CASE ctrlState = "CTRL_SETUP_WAIT"      -> "SETUP"
    [] ctrlState = "CTRL_DATA_IN_WAIT"    -> "DATA_IN"
    [] ctrlState = "CTRL_DATA_OUT_WAIT"   -> "DATA_OUT"
    [] ctrlState = "CTRL_STATUS_IN_WAIT"  -> "STATUS_IN"
    [] ctrlState = "CTRL_STATUS_OUT_WAIT" -> "STATUS_OUT"
    [] OTHER -> "none"

DeviceAnswers(c) == active[c] = Awaited /\ (UrbDone(c) \/ UrbStall(c))

(* The thread keeps calling: every call leaves a message in the queue that *)
(* wakes it.  A device asked again and again for a stage the thread waits  *)
(* for answers some day while the thread waits.                            *)
CtlFairSpec ==
  /\ CtlSpec /\ WF_ctlVars(Poll)
  /\ \A c \in Channels : SF_ctlVars(DeviceAnswers(c))

----------------------------------------------------------------------------
(* Properties.                                                             *)

(* usbh_ctlreq.c, USBH_CtlReq: a request is answered USBH_OK only when    *)
(* every stage of it was completed since it was sent, the later ones after *)
(* the last SETUP packet the device took, whatever NAKs, errors, lost      *)
(* handshakes, late interrupts of an earlier attempt and retries came      *)
(* before.                                                                 *)
OkIsComplete == [][ContinueRequest("OK") => StagesOf(setup) \subseteq wire]_ctlVars

(* The one refusal that USBH_HandleControl does not name: the wait for an  *)
(* OUT status stage knows no STALL.                                        *)
StatusRefused == ctrlState = "CTRL_STATUS_OUT_WAIT" /\ urb["out"] = "STALL"

(* usbh_ctlreq.c, USBH_CtlReq "provide the status after completion of the  *)
(* request": every request that was sent is answered or sent again, if the *)
(* device never refuses an OUT status stage.  If it does, the request is   *)
(* never answered.                                                         *)
Answered == []~StatusRefused => (requestState = "CMD_WAIT" ~> requestState = "CMD_SEND")

(* What a control transfer promises its caller.                            *)
Abstract == INSTANCE ControlTransfer WITH
  busy <- requestState = "CMD_WAIT", req <- setup,
  acked <- wire, failures <- errorcount

ControlTransferSpec == Abstract!Spec

=============================================================================
