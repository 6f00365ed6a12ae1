------------------------------- MODULE MscBot -------------------------------
(***************************************************************************)
(* The bulk-only transport of the mass-storage class (usbh_msc_bot.c), the *)
(* host channels it polls (stm32f4xx_hal_hcd.c) with their data toggles,   *)
(* and the device at the other end, which is external.                     *)
(*                                                                         *)
(* A command of usbh_msc_scsi.c is called again and again until its answer *)
(* is not USBH_BUSY: the first call fills in the command block, each later *)
(* one is one step of USBH_MSC_BOT_Process.  It sends the command block    *)
(* (CBW), moves the data packet by packet and receives the status (CSW).   *)
(*                                                                         *)
(* USBH_MSC_BOT_Abort answers only what USBH_ClrFeature does, and that is  *)
(* never USBH_UNRECOVERED_ERROR: BOT_UNRECOVERED_ERROR is never entered    *)
(* and left out.                                                           *)
(***************************************************************************)
EXTENDS Naturals

CONSTANTS
  MaxPackets,  \* the largest data stage, in packets
  Stalls,      \* TRUE if the device may move less than it is asked to, which
               \* ends in a STALL, or refuse a command block
  Breaks       \* TRUE if four transaction errors in a row and babble happen

ASSUME BotAssumption ==
  MaxPackets \in Nat /\ Stalls \in BOOLEAN /\ Breaks \in BOOLEAN

VARIABLES
  cmdState,    \* hbot.cmd_state
  botState,    \* hbot.state
  cbw,         \* hbot.cbw as it was filled in: direction and packets of data
  left,        \* hbot.cbw.field.DataTransferLength, in packets
  csw,         \* the status in hbot.csw
  urb,         \* hc[c].urb_state of OutPipe and InPipe
  active,      \* active[c]: the stage channel c is enabled for, or "none"
  toggle,      \* hc[c].toggle_out and toggle_in
  phase,       \* the device: what it does next
  todo,        \* the packets it still means to move
  moved,       \* the packets it moved for the command
  halted,      \* its halted endpoints
  expects,     \* its data toggles
  fresh        \* history: the status was sent after the command began

hostVars == <<cmdState, botState, cbw, left, csw>>
hcVars   == <<urb, active, toggle>>
devVars  == <<phase, todo, moved, halted, expects>>
botVars  == <<hostVars, hcVars, devVars, fresh>>

BotStates ==
  {"BOT_SEND_CBW", "BOT_SEND_CBW_WAIT", "BOT_DATA_IN", "BOT_DATA_IN_WAIT",
   "BOT_DATA_OUT", "BOT_DATA_OUT_WAIT", "BOT_RECEIVE_CSW",
   "BOT_RECEIVE_CSW_WAIT", "BOT_ERROR_IN", "BOT_ERROR_OUT"}
UrbStates == {"IDLE", "DONE", "NOTREADY", "ERROR", "STALL"}
Channels  == {"out", "in"}
ChannelOf(stage) == IF stage \in {"CBW", "DATA_OUT"} THEN "out" ELSE "in"
CswStatus == {"passed", "failed", "phase"}

(* A command without data has the OUT direction.                           *)
Commands ==
  [dir : Channels, len : 1..MaxPackets] \union {[dir |-> "out", len |-> 0]}

HostTypeOK ==
  /\ cmdState \in {"CMD_SEND", "CMD_WAIT"}
  /\ botState \in BotStates
  /\ cbw \in Commands /\ left \in 0..MaxPackets
  /\ csw \in CswStatus

HcTypeOK ==
  /\ urb \in [Channels -> UrbStates]
  /\ active \in [Channels -> {"CBW", "DATA_OUT", "DATA_IN", "CSW", "none"}]
  /\ toggle \in [Channels -> {0, 1}]

DevTypeOK ==
  /\ phase \in {"COMMAND", "DATA_OUT", "DATA_IN", "STATUS", "INVALID"}
  /\ todo \in 0..MaxPackets /\ moved \in 0..MaxPackets
  /\ halted \subseteq Channels
  /\ expects \in [Channels -> {0, 1}]

BotTypeOK == HostTypeOK /\ HcTypeOK /\ DevTypeOK /\ fresh \in BOOLEAN

----------------------------------------------------------------------------
(* The host's side: one call of USBH_MSC_BOT_Process.  next and status are *)
(* the hbot.state it leaves and the value it returns.                      *)

(* HAL_HCD_HC_SubmitRequest: the URB becomes idle, the channel is enabled. *)
Submit(stage) ==
  /\ urb' = [urb EXCEPT ![ChannelOf(stage)] = "IDLE"]
  /\ active' = [active EXCEPT ![ChannelOf(stage)] = stage]
  /\ UNCHANGED <<toggle, devVars>>

NoSubmit == UNCHANGED <<hcVars, devVars>>

SendStage(state, stage, wait, next, status) ==
  /\ botState = state /\ next = wait /\ status = "BUSY"
  /\ Submit(stage)
  /\ UNCHANGED left

SendCbw(next, status) ==
  SendStage("BOT_SEND_CBW", "CBW", "BOT_SEND_CBW_WAIT", next, status)

DataIn(next, status) ==
  SendStage("BOT_DATA_IN", "DATA_IN", "BOT_DATA_IN_WAIT", next, status)

DataOut(next, status) ==
  SendStage("BOT_DATA_OUT", "DATA_OUT", "BOT_DATA_OUT_WAIT", next, status)

ReceiveCsw(next, status) ==
  SendStage("BOT_RECEIVE_CSW", "CSW", "BOT_RECEIVE_CSW_WAIT", next, status)

AfterCbw ==
  CASE left # 0 /\ cbw.dir = "in"  -> "BOT_DATA_IN"
    [] left # 0 /\ cbw.dir = "out" -> "BOT_DATA_OUT"
    [] left = 0                    -> "BOT_RECEIVE_CSW"

(* Variant: a NAK does not make the command block be sent again.           *)
CbwNotResent(next, status) ==
  /\ botState = "BOT_SEND_CBW_WAIT" /\ status = "BUSY"
  /\ \/ urb["out"] = "DONE" /\ next = AfterCbw
     \/ urb["out"] = "STALL" /\ next = "BOT_ERROR_OUT"
     \/ urb["out"] \in {"IDLE", "NOTREADY", "ERROR"} /\ next = botState
  /\ NoSubmit /\ UNCHANGED left

(* In each wait state the URB states the code does not name leave the      *)
(* state as it is.                                                         *)
SendCbwWait(next, status) ==
  /\ botState = "BOT_SEND_CBW_WAIT" /\ status = "BUSY"
  /\ \/ urb["out"] = "DONE" /\ next = AfterCbw
     \/ urb["out"] = "NOTREADY" /\ next = "BOT_SEND_CBW"
     \/ urb["out"] = "STALL" /\ next = "BOT_ERROR_OUT"
     \/ urb["out"] \in {"IDLE", "ERROR"} /\ next = botState
  /\ NoSubmit /\ UNCHANGED left

(* Variant: one packet more than was asked for.                            *)
PacketMore(stage, next) ==
  /\ left' = left - 1
  /\ IF left > 0 THEN next = botState /\ Submit(stage)
                 ELSE next = "BOT_RECEIVE_CSW" /\ NoSubmit

(* A packet is done: the next one, or the status.                          *)
PacketDone(stage, next) ==
  /\ left' = IF left > 1 THEN left - 1 ELSE 0
  /\ IF left' > 0 THEN next = botState /\ Submit(stage)
                  ELSE next = "BOT_RECEIVE_CSW" /\ NoSubmit

DataInWait(next, status) ==
  /\ botState = "BOT_DATA_IN_WAIT" /\ status = "BUSY"
  /\ \/ urb["in"] = "DONE" /\ PacketDone("DATA_IN", next)
     \/ /\ \/ urb["in"] = "STALL" /\ next = "BOT_ERROR_IN"
           \/ urb["in"] \in {"IDLE", "NOTREADY", "ERROR"} /\ next = botState
        /\ NoSubmit /\ UNCHANGED left

(* Variant: a NAK is taken for the end of the packet.                      *)
DataOutNotResent(next, status) ==
  /\ botState = "BOT_DATA_OUT_WAIT" /\ status = "BUSY"
  /\ \/ urb["out"] \in {"DONE", "NOTREADY"} /\ PacketDone("DATA_OUT", next)
     \/ /\ \/ urb["out"] = "STALL" /\ next = "BOT_ERROR_OUT"
           \/ urb["out"] \in {"IDLE", "ERROR"} /\ next = botState
        /\ NoSubmit /\ UNCHANGED left

DataOutWait(next, status) ==
  /\ botState = "BOT_DATA_OUT_WAIT" /\ status = "BUSY"
  /\ \/ urb["out"] = "DONE" /\ PacketDone("DATA_OUT", next)
     \/ /\ \/ urb["out"] = "NOTREADY" /\ next = "BOT_DATA_OUT"
           \/ urb["out"] = "STALL" /\ next = "BOT_ERROR_OUT"
           \/ urb["out"] \in {"IDLE", "ERROR"} /\ next = botState
        /\ NoSubmit /\ UNCHANGED left

(* USBH_MSC_DecodeCSW: a status block of another length or with a wrong    *)
(* signature counts as a phase error.                                      *)
DecodeCsw == IF csw = "passed" THEN "OK" ELSE "FAIL"

(* Variant: a NAK is taken for a status block.                             *)
CswNotAwaited(next, status) ==
  /\ botState = "BOT_RECEIVE_CSW_WAIT"
  /\ \/ urb["in"] \in {"DONE", "NOTREADY"} /\ next = "BOT_SEND_CBW" /\ status = DecodeCsw
     \/ urb["in"] = "STALL" /\ next = "BOT_ERROR_IN" /\ status = "BUSY"
     \/ urb["in"] \in {"IDLE", "ERROR"} /\ next = botState /\ status = "BUSY"
  /\ NoSubmit /\ UNCHANGED left

ReceiveCswWait(next, status) ==
  /\ botState = "BOT_RECEIVE_CSW_WAIT"
  /\ \/ urb["in"] = "DONE" /\ next = "BOT_SEND_CBW" /\ status = DecodeCsw
     \/ urb["in"] = "STALL" /\ next = "BOT_ERROR_IN" /\ status = "BUSY"
     \/ urb["in"] \in {"IDLE", "NOTREADY", "ERROR"} /\ next = botState /\ status = "BUSY"
  /\ NoSubmit /\ UNCHANGED left

(* The device obeys CLEAR_FEATURE: its endpoint is no longer halted and    *)
(* its data toggle is 0; after a refused command block it stays halted     *)
(* until it is reset.                                                      *)
ClearHalt(c) ==
  /\ halted' = IF phase = "INVALID" THEN halted ELSE halted \ {c}
  /\ expects' = [expects EXCEPT ![c] = 0]
  /\ UNCHANGED <<phase, todo, moved>>

(* USBH_MSC_BOT_Abort: the answer of USBH_ClrFeature is USBH_OK, or it is  *)
(* asked again.                                                            *)
ErrorIn(next, status) ==
  /\ botState = "BOT_ERROR_IN" /\ status = "BUSY" /\ UNCHANGED left
  /\ \/ next = "BOT_RECEIVE_CSW" /\ ClearHalt("in") /\ UNCHANGED hcVars
     \/ next = botState /\ NoSubmit

ErrorOut(next, status) ==
  /\ botState = "BOT_ERROR_OUT" /\ status = "BUSY" /\ UNCHANGED left
  /\ \/ /\ next = "BOT_ERROR_IN" /\ ClearHalt("out")
        /\ toggle' = [out |-> 1 - toggle["out"], in |-> 0]
        /\ UNCHANGED <<urb, active>>
     \/ next = botState /\ NoSubmit

BotProcess(next, status) ==
  \/ SendCbw(next, status)    \/ SendCbwWait(next, status)
  \/ DataIn(next, status)     \/ DataInWait(next, status)
  \/ DataOut(next, status)    \/ DataOutWait(next, status)
  \/ ReceiveCsw(next, status) \/ ReceiveCswWait(next, status)
  \/ ErrorIn(next, status)    \/ ErrorOut(next, status)

----------------------------------------------------------------------------
(* One call of a function of usbh_msc_scsi.c.                              *)

StartCommand(c, status) ==
  /\ cmdState = "CMD_SEND" /\ status = "BUSY"
  /\ cbw' = c /\ left' = c.len
  /\ botState' = "BOT_SEND_CBW" /\ cmdState' = "CMD_WAIT"
  /\ moved' = 0 /\ fresh' = FALSE
  /\ UNCHANGED <<csw, hcVars, phase, todo, halted, expects>>

ContinueCommand(status) ==
  \E next \in BotStates :
    /\ cmdState = "CMD_WAIT"
    /\ BotProcess(next, status)
    /\ botState' = next
    /\ cmdState' = IF status = "BUSY" THEN "CMD_WAIT" ELSE "CMD_SEND"
    /\ UNCHANGED <<cbw, csw, fresh>>

ScsiCall(c, status) == StartCommand(c, status) \/ ContinueCommand(status)

----------------------------------------------------------------------------
(* The channel interrupts.  A packet that is done flips the host's data    *)
(* toggle; an IN channel is re-activated by its handler after a NAK and    *)
(* after an error; an OUT channel sends again only what is submitted       *)
(* again, for only a submission fills its FIFO.                            *)

Stored(c, state, halts) ==
  /\ urb' = [urb EXCEPT ![c] = state]
  /\ active' = IF halts THEN [active EXCEPT ![c] = "none"] ELSE active
  /\ UNCHANGED hostVars

Flip(t, c) == [t EXCEPT ![c] = 1 - t[c]]

Failed == {"NOTREADY"} \union (IF Breaks THEN {"ERROR"} ELSE {})

(* The device takes a command block: it may mean to move less.             *)
TakeCbw ==
  /\ phase = "COMMAND" /\ active["out"] = "CBW"
  /\ todo' \in IF Stalls THEN 0..cbw.len ELSE {cbw.len}
  /\ phase' = CASE cbw.len = 0    -> "STATUS"
                [] cbw.len # 0 /\ cbw.dir = "in"  -> "DATA_IN"
                [] cbw.len # 0 /\ cbw.dir = "out" -> "DATA_OUT"
  /\ UNCHANGED <<moved, halted>>

TakeData ==
  /\ phase = "DATA_OUT" /\ todo > 0
  /\ todo' = todo - 1 /\ moved' = moved + 1
  /\ phase' = IF moved' = cbw.len THEN "STATUS" ELSE "DATA_OUT"
  /\ UNCHANGED halted

(* Data that comes instead of a command block is not one.                  *)
TakeInvalid ==
  /\ phase = "COMMAND" /\ active["out"] = "DATA_OUT"
  /\ phase' = "INVALID" /\ halted' = Channels
  /\ UNCHANGED <<todo, moved>>

(* A packet with the wrong data toggle is acknowledged and discarded.      *)
DeviceTakes ==
  /\ active["out"] # "none" /\ "out" \notin halted
  /\ \/ /\ toggle["out"] = expects["out"]
        /\ expects' = Flip(expects, "out")
        /\ TakeCbw \/ TakeData \/ TakeInvalid
     \/ toggle["out"] # expects["out"] /\ UNCHANGED devVars

OutDone ==
  /\ DeviceTakes
  /\ Stored("out", "DONE", TRUE) /\ toggle' = Flip(toggle, "out")
  /\ UNCHANGED fresh

OutNak ==
  /\ active["out"] # "none" /\ "out" \notin halted
  /\ Stored("out", "NOTREADY", TRUE)
  /\ UNCHANGED <<toggle, devVars, fresh>>

(* The packet or its handshake is lost.                                    *)
OutLost ==
  /\ active["out"] # "none"
  /\ DeviceTakes \/ UNCHANGED devVars
  /\ \E state \in Failed : Stored("out", state, TRUE)
  /\ UNCHANGED <<toggle, fresh>>

(* The device stalls: it is halted, wants no more data, or refuses the     *)
(* command block.                                                          *)
OutStall ==
  /\ active["out"] # "none" /\ Stored("out", "STALL", TRUE)
  /\ \/ "out" \in halted /\ UNCHANGED devVars
     \/ /\ "out" \notin halted /\ phase = "DATA_OUT" /\ todo = 0
        /\ halted' = halted \union {"out"} /\ phase' = "STATUS"
        /\ UNCHANGED <<todo, moved, expects>>
     \/ /\ Stalls /\ "out" \notin halted /\ phase = "COMMAND"
        /\ halted' = Channels /\ phase' = "INVALID"
        /\ UNCHANGED <<todo, moved, expects>>
  /\ UNCHANGED <<toggle, fresh>>

(* The device sends data or its status, for which it is asked with an      *)
(* enabled channel; the host drops what has the wrong data toggle, and     *)
(* the device does not know.                                               *)
Sends(received) ==
  \/ /\ phase = "DATA_IN" /\ todo > 0
     /\ todo' = todo - 1 /\ moved' = moved + 1
     /\ phase' = IF moved' = cbw.len THEN "STATUS" ELSE "DATA_IN"
     /\ UNCHANGED <<halted, csw, fresh>>
  \/ /\ phase = "STATUS" /\ phase' = "COMMAND"
     /\ \E status \in {"failed", "phase"} \union (IF moved = cbw.len THEN {"passed"} ELSE {}) :
          csw' = IF received THEN status ELSE csw
     /\ fresh' = (fresh \/ received)
     /\ UNCHANGED <<todo, moved, halted>>

InDone ==
  /\ active["in"] # "none" /\ "in" \notin halted
  /\ toggle["in"] = expects["in"] /\ Sends(active["in"] = "CSW")
  /\ urb' = [urb EXCEPT !["in"] = "DONE"] /\ active' = [active EXCEPT !["in"] = "none"]
  /\ toggle' = Flip(toggle, "in") /\ expects' = Flip(expects, "in")
  /\ UNCHANGED <<cmdState, botState, cbw, left>>

InToggleError ==
  /\ active["in"] # "none" /\ "in" \notin halted
  /\ toggle["in"] # expects["in"] /\ Sends(FALSE)
  /\ \E state \in Failed : Stored("in", state, FALSE)
  /\ expects' = Flip(expects, "in") /\ UNCHANGED <<toggle, fresh>>

(* A NAK, or a packet that is lost and sent again.                         *)
InNotReady ==
  /\ active["in"] # "none"
  /\ \E state \in Failed : Stored("in", state, FALSE)
  /\ UNCHANGED <<toggle, devVars, fresh>>

InBabble ==
  /\ Breaks /\ active["in"] # "none" /\ Stored("in", "ERROR", TRUE)
  /\ UNCHANGED <<toggle, devVars, fresh>>

InStall ==
  /\ active["in"] # "none" /\ Stored("in", "STALL", TRUE)
  /\ \/ "in" \in halted /\ UNCHANGED devVars
     \/ /\ "in" \notin halted /\ phase = "DATA_IN" /\ todo = 0
        /\ halted' = halted \union {"in"} /\ phase' = "STATUS"
        /\ UNCHANGED <<todo, moved, expects>>
  /\ UNCHANGED <<toggle, fresh>>

Bus ==
  \/ OutDone \/ OutNak \/ OutLost \/ OutStall
  \/ InDone \/ InToggleError \/ InNotReady \/ InBabble \/ InStall

----------------------------------------------------------------------------
(* USBH_MSC_InterfaceInit and USBH_MSC_BOT_Init have run: the data toggles *)
(* of both pipes are 0.                                                    *)
BotInit ==
  /\ cmdState = "CMD_SEND" /\ botState = "BOT_SEND_CBW"
  /\ cbw = [dir |-> "out", len |-> 0] /\ left = 0 /\ csw = "failed"
  /\ urb = [c \in Channels |-> "IDLE"] /\ active = [c \in Channels |-> "none"]
  /\ toggle = [c \in Channels |-> 0] /\ expects = [c \in Channels |-> 0]
  /\ phase = "COMMAND" /\ todo = 0 /\ moved = 0 /\ halted = {} /\ fresh = FALSE

Call == \E c \in Commands, status \in {"BUSY", "OK", "FAIL"} : ScsiCall(c, status)

BotNext == Call \/ Bus

BotSpec == BotInit /\ [][BotNext]_botVars

(* The caller keeps calling; a device that is asked again and again takes  *)
(* and sends its packets some day.                                         *)
BotFairSpec ==
  BotSpec /\ WF_botVars(Call) /\ SF_botVars(OutDone) /\ SF_botVars(InDone)

----------------------------------------------------------------------------
(* Properties.                                                             *)

(* usbh_msc_bot.c, BOT_DATA_OUT_WAIT "Resend same data" and "Adjust Data   *)
(* pointer": host and device are at the same packet of the data stage,     *)
(* whatever NAKs, lost packets and lost handshakes came before: no packet  *)
(* is skipped, and none is written twice.                                  *)
Ahead ==
  \/ cbw.dir = "out" /\ toggle["out"] # expects["out"]
  \/ cbw.dir = "out" /\ botState = "BOT_DATA_OUT_WAIT" /\ urb["out"] = "DONE"
  \/ cbw.dir = "in" /\ botState = "BOT_DATA_IN_WAIT" /\ urb["in"] = "DONE"

Moving ==
  /\ phase \in {"DATA_OUT", "DATA_IN"}
  /\ botState \in {"BOT_DATA_OUT", "BOT_DATA_OUT_WAIT", "BOT_DATA_IN", "BOT_DATA_IN_WAIT"}

Lockstep == Moving => moved + left = cbw.len + (IF Ahead THEN 1 ELSE 0)

(* usbh_msc_bot.c, USBH_MSC_BOT_Process: the transport keeps the promise   *)
(* of ScsiCommand.                                                         *)
Abstract == INSTANCE ScsiCommand WITH
  busy <- cmdState = "CMD_WAIT", cmd <- cbw,
  answer <- IF fresh THEN csw ELSE "none"

ScsiCommandSpec == Abstract!Spec

(* usbh_msc_bot.c: while the device moves all the data it is asked for     *)
(* and no transaction fails four times in a row, every command is          *)
(* finished, whatever the device NAKs and the bus loses.                   *)
Cooperative ==
  /\ halted = {} /\ \A c \in Channels : urb[c] # "ERROR"
  /\ phase \in {"DATA_IN", "DATA_OUT"} => moved + todo = cbw.len

BotAnswered == []Cooperative => (cmdState = "CMD_WAIT" ~> cmdState = "CMD_SEND")

(* usbh_msc_bot.c, 6.7.2 "On a STALL condition receiving data": "The host  *)
(* shall attempt to receive a CSW": the command of a device that stalled   *)
(* its data and has a status to send is finished.                          *)
StatusAfterStall ==
  botState = "BOT_ERROR_IN" /\ phase = "STATUS" ~> cmdState = "CMD_SEND"

=============================================================================
