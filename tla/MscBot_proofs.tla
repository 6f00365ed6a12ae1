--------------------------- MODULE MscBot_proofs ---------------------------
(***************************************************************************)
(* Proofs about the bulk-only transport, for every size of the data stage  *)
(* and every behaviour of the device and the bus: its types, that host and *)
(* device stay in lockstep, and that it implements ScsiCommand.            *)
(***************************************************************************)
EXTENDS MscBot, TLAPS

Busy       == cmdState = "CMD_WAIT"
OutWaits   == {"BOT_SEND_CBW_WAIT", "BOT_DATA_OUT_WAIT"}
Recovering == {"BOT_ERROR_IN", "BOT_ERROR_OUT"}
StatusSteps == {"BOT_RECEIVE_CSW", "BOT_RECEIVE_CSW_WAIT"}
DataPhases == {"DATA_OUT", "DATA_IN"}
Stopped    == {"STATUS", "INVALID"}

(* A channel is enabled only for the stage the host waits for, and an URB  *)
(* that is done or stalled has halted it.                                  *)
ChannelsKnown ==
  /\ active["out"] \in {"CBW", "DATA_OUT", "none"} /\ active["in"] \in {"DATA_IN", "CSW", "none"}
  /\ active["out"] = "CBW" => botState = "BOT_SEND_CBW_WAIT"
  /\ active["out"] = "DATA_OUT" => botState = "BOT_DATA_OUT_WAIT"
  /\ active["in"] = "DATA_IN" => botState = "BOT_DATA_IN_WAIT"
  /\ active["in"] = "CSW" => botState = "BOT_RECEIVE_CSW_WAIT"
  /\ urb["out"] # "IDLE" => active["out"] = "none"
  /\ urb["in"] \in {"DONE", "STALL"} => active["in"] = "none"

(* Between commands both sides rest.                                       *)
Resting == ~Busy => botState = "BOT_SEND_CBW" /\ phase = "COMMAND"

(* What the device means to do fits the command; the host's state agrees   *)
(* with the direction.                                                     *)
DeviceKnown ==
  /\ phase \in DataPhases => moved < cbw.len /\ moved + todo <= cbw.len
  /\ phase = "DATA_OUT" => cbw.dir = "out"
  /\ phase = "DATA_IN" => cbw.dir = "in"
  /\ botState \in {"BOT_DATA_OUT", "BOT_DATA_OUT_WAIT"} => cbw.dir = "out"
  /\ botState \in {"BOT_DATA_IN", "BOT_DATA_IN_WAIT"} => cbw.dir = "in"

(* A command block that was taken and is sent again has the old toggle.    *)
CbwKnown ==
  /\ botState \in {"BOT_SEND_CBW", "BOT_SEND_CBW_WAIT"} /\ Busy => left = cbw.len /\ moved = 0
  /\ botState = "BOT_SEND_CBW" /\ phase # "COMMAND" => toggle["out"] # expects["out"]
  /\ botState = "BOT_SEND_CBW_WAIT" /\ phase \notin {"COMMAND", "INVALID"} /\ urb["out"] # "DONE"
       => toggle["out"] # expects["out"]
  /\ botState = "BOT_SEND_CBW" => phase # "INVALID"
  /\ botState = "BOT_SEND_CBW_WAIT" /\ phase = "INVALID" => urb["out"] = "STALL"
  /\ botState \in OutWaits /\ urb["out"] = "DONE" => toggle["out"] = expects["out"]

(* A stalled endpoint moves no more data, and the status is asked for only *)
(* when all data moved or the device stopped.                              *)
StallKnown ==
  /\ phase = "INVALID" => halted = Channels
  /\ "in" \in halted => phase \in Stopped
  /\ "out" \in halted /\ phase # "INVALID" =>
       phase = "STATUS" /\ (botState = "BOT_ERROR_OUT" \/ (botState \in OutWaits /\ urb["out"] = "STALL"))
  /\ botState \in OutWaits /\ urb["out"] = "STALL" => phase \in Stopped
  /\ botState \in {"BOT_DATA_IN_WAIT", "BOT_RECEIVE_CSW_WAIT"} /\ urb["in"] = "STALL" => phase \in Stopped
  /\ botState \in Recovering => phase \in Stopped
  /\ botState \in StatusSteps => phase \notin DataPhases
  /\ toggle["in"] # expects["in"] => phase \in Stopped

(* The status block received is the one of this command.                   *)
CswKnown ==
  /\ fresh => phase = "COMMAND" /\ active["out"] = "none" /\ active["in"] = "none"
  /\ fresh /\ Busy => botState = "BOT_RECEIVE_CSW_WAIT" /\ urb["in"] = "DONE"
  /\ botState = "BOT_RECEIVE_CSW_WAIT" /\ urb["in"] = "DONE" => fresh

BotTypes == HostTypeOK /\ HcTypeOK
DevTypes == DevTypeOK /\ fresh \in BOOLEAN
DataKnown == Lockstep /\ ChannelsKnown /\ Resting /\ DeviceKnown
EndKnown == CbwKnown /\ StallKnown /\ CswKnown

BotInv == BotTypes /\ DevTypes /\ DataKnown /\ EndKnown

----------------------------------------------------------------------------
USE BotAssumption
    DEF BotInv, BotTypes, DevTypes, DataKnown, EndKnown, HostTypeOK, HcTypeOK, DevTypeOK,
        Lockstep, Moving, Ahead, ChannelsKnown, Resting, DeviceKnown, CbwKnown, StallKnown,
        CswKnown, Busy, OutWaits, Recovering, StatusSteps, DataPhases, Stopped, Channels,
        UrbStates, CswStatus, BotStates

LEMMA CommandFacts ==
  /\ [dir |-> "out", len |-> 0] \in Commands
  /\ \A c \in Commands : c.dir \in Channels /\ c.len \in Nat /\ c.len <= MaxPackets
  BY DEF Commands

LEMMA InitInv == BotInit => BotInv
<1> SUFFICES ASSUME BotInit PROVE BotInv
  OBVIOUS
<1> USE CommandFacts DEF BotInit
<1>1. BotTypes
  OBVIOUS
<1>2. DevTypes
  <2>1. DevTypeOK
    OBVIOUS
  <2>2. QED
    BY <2>1
<1>3. DataKnown /\ EndKnown
  OBVIOUS
<1>4. QED
  BY <1>1, <1>2, <1>3

LEMMA StartInv ==
  ASSUME BotInv, NEW c \in Commands, NEW status, StartCommand(c, status)
  PROVE  BotInv'
<1> USE CommandFacts DEF StartCommand, hcVars, devVars
<1>1. BotTypes'
  OBVIOUS
<1>2. DevTypes'
  <2>1. DevTypeOK'
    OBVIOUS
  <2>2. (fresh \in BOOLEAN)'
    OBVIOUS
  <2>3. QED
    BY <2>1, <2>2
<1>3. DataKnown'
  OBVIOUS
<1>4. EndKnown'
  OBVIOUS
<1>5. QED
  BY <1>1, <1>2, <1>3, <1>4

(* A call that only submits the next stage.                                *)
LEMMA SubmitInv ==
  ASSUME BotInv, Busy, UNCHANGED <<cbw, csw, fresh>>,
         NEW next \in BotStates, NEW status, botState' = next,
         cmdState' = IF status = "BUSY" THEN "CMD_WAIT" ELSE "CMD_SEND",
         SendCbw(next, status) \/ DataIn(next, status) \/ DataOut(next, status) \/ ReceiveCsw(next, status)
  PROVE  BotInv'
<1> USE CommandFacts DEF SendStage, Submit, ChannelOf, devVars
<1>1. CASE SendCbw(next, status)
  BY <1>1 DEF SendCbw
<1>2. CASE DataIn(next, status)
  BY <1>2 DEF DataIn
<1>3. CASE DataOut(next, status)
  BY <1>3 DEF DataOut
<1>4. CASE ReceiveCsw(next, status)
  BY <1>4 DEF ReceiveCsw
<1>5. QED
  BY <1>1, <1>2, <1>3, <1>4

(* A call that reads the URB of the stage in flight.                       *)
LEMMA WaitInv ==
  ASSUME BotInv, Busy, UNCHANGED <<cbw, csw, fresh>>,
         NEW next \in BotStates, NEW status, botState' = next,
         cmdState' = IF status = "BUSY" THEN "CMD_WAIT" ELSE "CMD_SEND",
         SendCbwWait(next, status) \/ DataInWait(next, status) \/ DataOutWait(next, status) \/ ReceiveCswWait(next, status)
  PROVE  BotInv'
<1> USE CommandFacts DEF NoSubmit, hcVars, devVars
<1>1. CASE SendCbwWait(next, status)
  <2> USE <1>1 DEF SendCbwWait, AfterCbw
  <2>1. BotTypes'
    OBVIOUS
  <2>2. DevTypes'
    OBVIOUS
  <2>3. DataKnown'
    OBVIOUS
  <2>4. EndKnown'
    <3>1. CASE urb["out"] = "DONE"
      <4>1. CASE left = 0
        BY <3>1, <4>1
      <4>2. CASE left # 0 /\ cbw.dir = "in"
        BY <3>1, <4>2
      <4>3. CASE left # 0 /\ cbw.dir = "out"
        BY <3>1, <4>3
      <4>4. QED
        BY <4>1, <4>2, <4>3
    <3>2. CASE urb["out"] # "DONE"
      BY <3>2
    <3>3. QED
      BY <3>1, <3>2
  <2>5. QED
    BY <2>1, <2>2, <2>3, <2>4
<1>2. CASE DataInWait(next, status)
  <2> USE <1>2 DEF DataInWait, PacketDone, Submit, ChannelOf
  <2>1. BotTypes'
    OBVIOUS
  <2>2. DevTypes'
    OBVIOUS
  <2>3. DataKnown'
    OBVIOUS
  <2>4. EndKnown'
    OBVIOUS
  <2>5. QED
    BY <2>1, <2>2, <2>3, <2>4
<1>3. CASE DataOutWait(next, status)
  <2> USE <1>3 DEF DataOutWait, PacketDone, Submit, ChannelOf
  <2>1. BotTypes'
    OBVIOUS
  <2>2. DevTypes'
    OBVIOUS
  <2>3. DataKnown'
    OBVIOUS
  <2>4. EndKnown'
    OBVIOUS
  <2>5. QED
    BY <2>1, <2>2, <2>3, <2>4
<1>4. CASE ReceiveCswWait(next, status)
  BY <1>4 DEF ReceiveCswWait, DecodeCsw
<1>5. QED
  BY <1>1, <1>2, <1>3, <1>4

(* A call that clears a halted endpoint.                                   *)
LEMMA RecoverInv ==
  ASSUME BotInv, Busy, UNCHANGED <<cbw, csw, fresh>>,
         NEW next \in BotStates, NEW status, botState' = next,
         cmdState' = IF status = "BUSY" THEN "CMD_WAIT" ELSE "CMD_SEND",
         ErrorIn(next, status) \/ ErrorOut(next, status)
  PROVE  BotInv'
<1> USE CommandFacts DEF ClearHalt, NoSubmit, hcVars, devVars
<1>1. CASE ErrorIn(next, status)
  BY <1>1 DEF ErrorIn
<1>2. CASE ErrorOut(next, status)
  <2> USE <1>2 DEF ErrorOut
  <2>1. BotTypes'
    OBVIOUS
  <2>2. DevTypes'
    OBVIOUS
  <2>3. DataKnown'
    OBVIOUS
  <2>4. EndKnown'
    OBVIOUS
  <2>5. QED
    BY <2>1, <2>2, <2>3, <2>4
<1>3. QED
  BY <1>1, <1>2

LEMMA CallInv ==
  ASSUME BotInv, Call
  PROVE  BotInv'
<1>1. PICK c \in Commands, status \in {"BUSY", "OK", "FAIL"} : ScsiCall(c, status)
  BY DEF Call
<1>2. CASE StartCommand(c, status)
  BY <1>2, StartInv
<1>3. CASE ContinueCommand(status)
  <2>1. PICK next \in BotStates :
          /\ cmdState = "CMD_WAIT" /\ BotProcess(next, status) /\ botState' = next
          /\ cmdState' = IF status = "BUSY" THEN "CMD_WAIT" ELSE "CMD_SEND"
          /\ UNCHANGED <<cbw, csw, fresh>>
    BY <1>3 DEF ContinueCommand
  <2>2. Busy
    BY <2>1
  <2>3. QED
    BY <2>1, <2>2, SubmitInv, WaitInv, RecoverInv DEF BotProcess
<1>4. QED
  BY <1>1, <1>2, <1>3 DEF ScsiCall

LEMMA OutInv ==
  ASSUME BotInv, OutDone \/ OutNak \/ OutLost \/ OutStall
  PROVE  BotInv'
<1> USE CommandFacts DEF Stored, Failed, Flip, hostVars, devVars
<1>1. CASE OutDone
  BY <1>1 DEF OutDone, DeviceTakes, TakeCbw, TakeData, TakeInvalid
<1>2. CASE OutNak
  BY <1>2 DEF OutNak
<1>3. CASE OutLost
  BY <1>3 DEF OutLost, DeviceTakes, TakeCbw, TakeData, TakeInvalid
<1>4. CASE OutStall
  BY <1>4 DEF OutStall
<1>5. QED
  BY <1>1, <1>2, <1>3, <1>4

(* What the device sends keeps its own types.                              *)
LEMMA SendsInv ==
  ASSUME BotInv, NEW received \in BOOLEAN, Sends(received), expects' = Flip(expects, "in")
  PROVE  DevTypes'
<1> USE CommandFacts DEF Sends, Flip
<1>1. (phase \in {"COMMAND", "DATA_OUT", "DATA_IN", "STATUS", "INVALID"} /\ halted \subseteq Channels)'
  OBVIOUS
<1>2. (todo \in 0..MaxPackets /\ moved \in 0..MaxPackets)'
  OBVIOUS
<1>3. (expects \in [Channels -> {0, 1}])'
  OBVIOUS
<1>4. (fresh \in BOOLEAN)'
  OBVIOUS
<1>5. QED
  BY <1>1, <1>2, <1>3, <1>4

LEMMA InInv ==
  ASSUME BotInv, InDone \/ InToggleError \/ InNotReady \/ InBabble \/ InStall
  PROVE  BotInv'
<1> USE CommandFacts DEF Stored, Failed, Flip, hostVars, devVars
<1>1. CASE InDone
  <2> USE <1>1 DEF InDone
  <2>1. BotTypes'
    BY DEF Sends
  <2>2. DevTypes'
    BY SendsInv
  <2>3. DataKnown'
    BY DEF Sends
  <2>4. EndKnown'
    <3>1. CASE phase = "DATA_IN"
      BY <3>1 DEF Sends
    <3>2. CASE phase # "DATA_IN"
      BY <3>2 DEF Sends
    <3>3. QED
      BY <3>1, <3>2
  <2>5. QED
    BY <2>1, <2>2, <2>3, <2>4
<1>2. CASE InToggleError
  <2> USE <1>2 DEF InToggleError
  <2>1. BotTypes'
    BY DEF Sends
  <2>2. DevTypes'
    BY SendsInv
  <2>3. DataKnown' /\ EndKnown'
    BY DEF Sends
  <2>4. QED
    BY <2>1, <2>2, <2>3
<1>3. CASE InNotReady
  BY <1>3 DEF InNotReady
<1>4. CASE InBabble
  BY <1>4 DEF InBabble
<1>5. CASE InStall
  BY <1>5 DEF InStall
<1>6. QED
  BY <1>1, <1>2, <1>3, <1>4, <1>5

LEMMA StepInv == BotInv /\ [BotNext]_botVars => BotInv'
<1>1. ASSUME BotInv, Call PROVE BotInv'
  BY <1>1, CallInv
<1>2. ASSUME BotInv, Bus PROVE BotInv'
  BY <1>2, OutInv, InInv DEF Bus
<1>3. ASSUME BotInv, UNCHANGED botVars PROVE BotInv'
  BY <1>3 DEF botVars, hostVars, hcVars, devVars
<1>4. QED
  BY <1>1, <1>2, <1>3 DEF BotNext

HIDE DEF BotInv, Lockstep, BotTypes, DevTypes, DataKnown, EndKnown

THEOREM BotInductive == BotSpec => []BotInv
<1>1. QED
  BY InitInv, StepInv, PTL DEF BotSpec

(* usbh_msc_bot.c: the transport's variables keep their types, for every   *)
(* size of the data stage and every device.                                *)
THEOREM BotTypeCorrect == BotSpec => []BotTypeOK
<1>1. BotInv => BotTypeOK
  BY DEF BotInv, BotTypes, DevTypes, BotTypeOK
<1>2. QED
  BY <1>1, BotInductive, PTL

(* usbh_msc_bot.c, BOT_DATA_OUT_WAIT and BOT_DATA_IN_WAIT: no packet is    *)
(* skipped or moved twice, whatever the bus loses and the device refuses.  *)
THEOREM BotLockstep == BotSpec => []Lockstep
<1>1. BotInv => Lockstep
  BY DEF BotInv, DataKnown
<1>2. QED
  BY <1>1, BotInductive, PTL

----------------------------------------------------------------------------
(* The refinement: each step of the transport is a step of ScsiCommand or  *)
(* leaves its variables as they are.                                       *)

LEMMA CallRefines ==
  ASSUME BotInv, Call
  PROVE  [Abstract!Next]_Abstract!vars
<1> USE DEF Abstract!vars, Abstract!Next
<1>1. PICK c \in Commands, status \in {"BUSY", "OK", "FAIL"} : ScsiCall(c, status)
  BY DEF Call
<1>2. CASE StartCommand(c, status)
  <2>1. Abstract!Begin
    BY <1>2 DEF StartCommand, Abstract!Begin, devVars
  <2>2. QED
    BY <2>1
<1>3. CASE ContinueCommand(status)
  <2>1. PICK next \in BotStates :
          /\ cmdState = "CMD_WAIT" /\ BotProcess(next, status)
          /\ cmdState' = IF status = "BUSY" THEN "CMD_WAIT" ELSE "CMD_SEND"
          /\ UNCHANGED <<cbw, csw, fresh>>
    BY <1>3 DEF ContinueCommand
  <2>2. UNCHANGED moved
    BY <2>1 DEF BotProcess, SendCbw, DataIn, DataOut, ReceiveCsw, SendStage, SendCbwWait,
       DataInWait, DataOutWait, ReceiveCswWait, PacketDone, ErrorIn, ErrorOut, ClearHalt,
       Submit, NoSubmit, devVars
  <2>3. CASE status = "BUSY"
    BY <2>1, <2>2, <2>3
  <2>4. CASE status # "BUSY"
    <3>1. fresh /\ (status = "OK" <=> csw = "passed")
      BY <2>1, <2>4 DEF BotInv, EndKnown, CswKnown, BotProcess, SendCbw, DataIn, DataOut,
         ReceiveCsw, SendStage, SendCbwWait, DataInWait, DataOutWait, ReceiveCswWait,
         DecodeCsw, ErrorIn, ErrorOut
    <3>2. csw # "none"
      BY DEF BotInv, BotTypes, HostTypeOK, CswStatus
    <3>3. Abstract!End(csw = "passed")
      BY <2>1, <2>2, <2>4, <3>1, <3>2 DEF Abstract!End
    <3>4. QED
      BY <3>3
  <2>5. QED
    BY <2>3, <2>4
<1>4. QED
  BY <1>1, <1>2, <1>3 DEF ScsiCall

(* What the device takes.                                                  *)
LEMMA DeviceTakesRefines ==
  ASSUME BotInv, DeviceTakes, UNCHANGED <<hostVars, fresh>>
  PROVE  [Abstract!Next]_Abstract!vars
<1> USE DEF Abstract!vars, Abstract!Next, hostVars
<1>1. CASE TakeCbw
  BY <1>1 DEF TakeCbw
<1>2. CASE TakeData
  <2>1. ~fresh /\ Busy /\ moved < cbw.len
    BY <1>2 DEF TakeData, BotInv, EndKnown, CswKnown, DataKnown, Resting, DeviceKnown
  <2>2. Abstract!Move
    BY <1>2, <2>1 DEF TakeData, Abstract!Move
  <2>3. QED
    BY <2>2
<1>3. CASE TakeInvalid \/ UNCHANGED devVars
  BY <1>3 DEF TakeInvalid, devVars
<1>4. QED
  BY <1>1, <1>2, <1>3 DEF DeviceTakes

(* What the device sends.                                                  *)
LEMMA SendsRefines ==
  ASSUME BotInv, NEW received \in BOOLEAN, Sends(received), UNCHANGED <<cmdState, cbw>>,
         ~received => UNCHANGED <<csw, fresh>>
  PROVE  [Abstract!Next]_Abstract!vars
<1> USE DEF Abstract!vars, Abstract!Next
<1>1. CASE phase = "DATA_IN"
  <2>1. ~fresh /\ Busy /\ moved < cbw.len
    BY <1>1 DEF BotInv, EndKnown, CswKnown, DataKnown, Resting, DeviceKnown
  <2>2. Abstract!Move
    BY <1>1, <2>1 DEF Sends, Abstract!Move
  <2>3. QED
    BY <2>2
<1>2. CASE phase = "STATUS" /\ received
  <2>1. ~fresh /\ Busy
    BY <1>2 DEF BotInv, EndKnown, CswKnown, DataKnown, Resting
  <2>2. /\ fresh' /\ UNCHANGED moved
        /\ csw' \in {"failed", "phase"} \union (IF moved = cbw.len THEN {"passed"} ELSE {})
    BY <1>2 DEF Sends
  <2>3. Abstract!Answer
    BY <2>1, <2>2 DEF Abstract!Answer
  <2>4. QED
    BY <2>3
<1>3. CASE phase = "STATUS" /\ ~received
  BY <1>3 DEF Sends
<1>4. QED
  BY <1>1, <1>2, <1>3 DEF Sends

LEMMA BusRefines ==
  ASSUME BotInv, Bus
  PROVE  [Abstract!Next]_Abstract!vars
<1>1. CASE OutDone
  BY <1>1, DeviceTakesRefines DEF OutDone, Stored, hostVars
<1>2. CASE OutLost
  <2>1. UNCHANGED <<hostVars, fresh>>
    BY <1>2 DEF OutLost, Stored, hostVars
  <2>2. CASE DeviceTakes
    BY <2>1, <2>2, DeviceTakesRefines
  <2>3. CASE UNCHANGED devVars
    BY <2>1, <2>3 DEF Abstract!vars, hostVars, devVars
  <2>4. QED
    BY <1>2, <2>2, <2>3 DEF OutLost
<1>3. CASE InDone
  <2>1. Sends(active["in"] = "CSW") /\ UNCHANGED <<cmdState, cbw>>
    BY <1>3 DEF InDone
  <2>2. active["in"] # "CSW" => UNCHANGED <<csw, fresh>>
    BY <2>1, <1>3 DEF Sends, BotInv, DevTypes
  <2>3. QED
    BY <2>1, <2>2, SendsRefines
<1>4. CASE InToggleError
  <2>1. Sends(FALSE) /\ UNCHANGED <<cmdState, cbw, csw, fresh>>
    BY <1>4 DEF InToggleError, Stored, hostVars
  <2>2. QED
    BY <2>1, SendsRefines
<1>5. CASE OutNak \/ OutStall \/ InNotReady \/ InBabble \/ InStall
  BY <1>5 DEF OutNak, OutStall, InNotReady, InBabble, InStall, Stored, hostVars, devVars, Abstract!vars
<1>6. QED
  BY <1>1, <1>2, <1>3, <1>4, <1>5 DEF Bus

(* usbh_msc_bot.c: the transport implements ScsiCommand: a command ends    *)
(* only with the status sent for it, and passed only if all data moved.    *)
THEOREM BotImplementsScsiCommand == BotSpec => ScsiCommandSpec
<1>1. BotInit => Abstract!Init
  BY CommandFacts DEF BotInit, Abstract!Init
<1>2. ASSUME BotInv, [BotNext]_botVars PROVE [Abstract!Next]_Abstract!vars
  <2>1. CASE UNCHANGED botVars
    BY <2>1 DEF botVars, hostVars, devVars, Abstract!vars
  <2>2. QED
    BY <1>2, <2>1, CallRefines, BusRefines DEF BotNext
<1>3. QED
  BY <1>1, <1>2, BotInductive, PTL DEF BotSpec, ScsiCommandSpec, Abstract!Spec

=============================================================================
