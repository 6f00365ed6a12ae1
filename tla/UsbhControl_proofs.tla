------------------------- MODULE UsbhControl_proofs -------------------------
(***************************************************************************)
(* Proofs about the control-transfer engine, for every set of requests and *)
(* every USBH_MAX_ERROR_COUNT: its types, the completeness of a request    *)
(* answered USBH_OK, and that the engine implements ControlTransfer.       *)
(***************************************************************************)
EXTENDS UsbhControl, TLAPS

(* What the thread knows about the wire in each state of the engine.       *)
DataInKnown ==
  ctrlState \in {"CTRL_DATA_IN", "CTRL_DATA_IN_WAIT"} =>
    setup.data /\ setup.dir = "D2H" /\ "SETUP" \in wire

DataOutKnown ==
  ctrlState \in {"CTRL_DATA_OUT", "CTRL_DATA_OUT_WAIT"} =>
    setup.data /\ setup.dir = "H2D" /\ "SETUP" \in wire

StatusInKnown ==
  ctrlState \in {"CTRL_STATUS_IN", "CTRL_STATUS_IN_WAIT"} =>
    setup.dir = "H2D" /\ StagesOf(setup) \ {"STATUS_IN"} \subseteq wire

StatusOutKnown ==
  ctrlState \in {"CTRL_STATUS_OUT", "CTRL_STATUS_OUT_WAIT"} =>
    setup.dir = "D2H" /\ StagesOf(setup) \ {"STATUS_OUT"} \subseteq wire

(* In a wait state the channel read works on the stage waited for, and its *)
(* URB is done only if that stage is completed.                            *)
WaitKnown(state, stage) ==
  ctrlState = state =>
    /\ active[ChannelOf(stage)] \in {stage, "none"}
    /\ urb[ChannelOf(stage)] = "DONE" => stage \in wire

(* A SETUP packet of an earlier attempt is never in flight during the      *)
(* later stages: completing it would forget them.                          *)
NoLateSetup ==
  active["out"] = "SETUP" => ctrlState \in {"CTRL_SETUP", "CTRL_SETUP_WAIT", "CTRL_ERROR"}

(* A channel whose URB is done is halted: no late interrupt follows.       *)
DoneHalts == \A c \in Channels : urb[c] = "DONE" => active[c] = "none"

CtlInv ==
  /\ CtlTypeOK
  /\ DataInKnown /\ DataOutKnown /\ StatusInKnown /\ StatusOutKnown
  /\ WaitKnown("CTRL_SETUP_WAIT", "SETUP")
  /\ WaitKnown("CTRL_DATA_IN_WAIT", "DATA_IN")
  /\ WaitKnown("CTRL_DATA_OUT_WAIT", "DATA_OUT")
  /\ WaitKnown("CTRL_STATUS_IN_WAIT", "STATUS_IN")
  /\ WaitKnown("CTRL_STATUS_OUT_WAIT", "STATUS_OUT")
  /\ active["in"] \in {"DATA_IN", "STATUS_IN", "none"}
  /\ active["out"] \in {"SETUP", "DATA_OUT", "STATUS_OUT", "none"}
  /\ NoLateSetup /\ DoneHalts

----------------------------------------------------------------------------
USE DEF Channels, UrbStates, Stages, CtrlStates, Status, ChannelOf

LEMMA InitInv == CtlInit => CtlInv
  BY ControlAssumption
  DEF CtlInit, CtlInv, CtlTypeOK, DataInKnown, DataOutKnown, StatusInKnown,
      StatusOutKnown, WaitKnown, NoLateSetup, DoneHalts

(* A step that submits a stage, and a step that only reads the URB, with   *)
(* the facts about the wire that the state it leads to needs.              *)
LEMMA ContinueInv ==
  ASSUME CtlInv, NEW status \in Status, ContinueRequest(status)
  PROVE  CtlInv'
<1> USE ControlAssumption
    DEF CtlInv, CtlTypeOK, DataInKnown, DataOutKnown, StatusInKnown,
        StatusOutKnown, WaitKnown, NoLateSetup, DoneHalts
<1>1. PICK next \in CtrlStates :
        /\ requestState = "CMD_WAIT" /\ HandleControl(next, status)
        /\ ctrlState' = IF status \in {"OK", "NOT_SUPPORTED"} THEN "CTRL_IDLE" ELSE next
        /\ requestState' = IF status # "BUSY" \/ next = "CTRL_SETUP"
                           THEN "CMD_SEND" ELSE "CMD_WAIT"
        /\ UNCHANGED <<setup, wire>>
  BY DEF ContinueRequest
<1>2. CASE Setup(next, status)
  BY <1>1, <1>2 DEF Setup, SendStage, Submit, StagesOf, DataStage, StatusStage
<1>3. CASE SetupWait(next, status)
  <2>1. setup.dir \in {"D2H", "H2D"} /\ setup.data \in BOOLEAN
    BY <1>1
  <2>2. CASE urb["out"] = "DONE"
    BY <1>1, <1>3, <2>1, <2>2
    DEF SetupWait, NoSubmit, AfterSetup, StagesOf, DataStage, StatusStage
  <2>3. CASE urb["out"] # "DONE"
    BY <1>1, <1>3, <2>3 DEF SetupWait, NoSubmit
  <2>4. QED
    BY <2>2, <2>3
<1>4. CASE DataIn(next, status)
  BY <1>1, <1>4 DEF DataIn, SendStage, Submit, StagesOf, DataStage, StatusStage
<1>5. CASE DataInWait(next, status)
  BY <1>1, <1>5 DEF DataInWait, NoSubmit, StagesOf, DataStage, StatusStage
<1>6. CASE DataOut(next, status)
  BY <1>1, <1>6 DEF DataOut, SendStage, Submit, StagesOf, DataStage, StatusStage
<1>7. CASE DataOutWait(next, status)
  BY <1>1, <1>7 DEF DataOutWait, NoSubmit, StagesOf, DataStage, StatusStage
<1>8. CASE StatusIn(next, status)
  BY <1>1, <1>8 DEF StatusIn, SendStage, Submit, StagesOf, DataStage, StatusStage
<1>9. CASE StatusInWait(next, status)
  BY <1>1, <1>9 DEF StatusInWait, NoSubmit, StagesOf, DataStage, StatusStage
<1>10. CASE StatusOut(next, status)
  BY <1>1, <1>10 DEF StatusOut, SendStage, Submit, StagesOf, DataStage, StatusStage
<1>11. CASE StatusOutWait(next, status)
  BY <1>1, <1>11 DEF StatusOutWait, NoSubmit, StagesOf, DataStage, StatusStage
<1>12. CASE Retry(next, status)
  BY <1>1, <1>12 DEF Retry, NoSubmit
<1>13. CASE GiveUp(next, status)
  BY <1>1, <1>13 DEF GiveUp, NoSubmit
<1>14. QED
  BY <1>1, <1>2, <1>3, <1>4, <1>5, <1>6, <1>7, <1>8, <1>9, <1>10, <1>11, <1>12, <1>13 DEF HandleControl

LEMMA StartInv ==
  ASSUME CtlInv, NEW r \in Requests, NEW status \in Status, StartRequest(r, status)
  PROVE  CtlInv'
  BY DEF StartRequest, CtlInv, CtlTypeOK, DataInKnown, DataOutKnown, StatusInKnown,
         StatusOutKnown, WaitKnown, NoLateSetup, DoneHalts

(* A stage other than SETUP completes: what was known stays known.         *)
LEMMA StageInv ==
  ASSUME CtlInv, NEW c \in Channels, NEW state \in UrbStates, NEW halted \in BOOLEAN,
         ChannelIrq(c, state, halted), state = "DONE" => halted,
         active[c] # "SETUP", Complete(active[c])
  PROVE  CtlInv'
<1>1. /\ wire' = wire \union {active[c]} /\ active[c] \in Stages
      /\ urb' = [urb EXCEPT ![c] = state]
      /\ active' = IF halted THEN [active EXCEPT ![c] = "none"] ELSE active
      /\ UNCHANGED <<requestState, ctrlState, errorcount, setup>>
  BY DEF Complete, ChannelIrq, CtlInv, CtlTypeOK
<1>2. CtlTypeOK'
  BY <1>1 DEF CtlInv, CtlTypeOK
<1>3. DataInKnown' /\ DataOutKnown' /\ StatusInKnown' /\ StatusOutKnown'
  BY <1>1 DEF CtlInv, DataInKnown, DataOutKnown, StatusInKnown, StatusOutKnown,
              StagesOf, DataStage, StatusStage
<1>4. ASSUME NEW s \in CtrlStates, NEW stage \in Stages, WaitKnown(s, stage)
      PROVE  WaitKnown(s, stage)'
  BY <1>1, <1>4 DEF WaitKnown, CtlInv, CtlTypeOK
<1>5. DoneHalts' /\ NoLateSetup'
  BY <1>1 DEF CtlInv, CtlTypeOK, NoLateSetup, DoneHalts
<1>6. /\ active'["in"] \in {"DATA_IN", "STATUS_IN", "none"}
      /\ active'["out"] \in {"SETUP", "DATA_OUT", "STATUS_OUT", "none"}
  BY <1>1 DEF CtlInv, CtlTypeOK
<1>7. QED
  BY <1>2, <1>3, <1>4, <1>5, <1>6 DEF CtlInv

LEMMA IrqInv ==
  ASSUME CtlInv, UrbIrq
  PROVE  CtlInv'
<1> USE DEF CtlInv, CtlTypeOK, DataInKnown, DataOutKnown, StatusInKnown,
            StatusOutKnown, WaitKnown, NoLateSetup, DoneHalts, ChannelIrq, StagesOf
<1>1. CASE UrbBabble
  BY <1>1 DEF UrbBabble
<1>2. ASSUME NEW c \in Channels, UrbDone(c)
      PROVE  CtlInv'
  <2>1. CASE active[c] = "SETUP"
    BY <1>2, <2>1 DEF UrbDone, Complete
  <2>2. CASE active[c] # "SETUP"
    BY <1>2, <2>2, StageInv DEF UrbDone
  <2>3. QED
    BY <2>1, <2>2
<1>3. ASSUME NEW c \in Channels, UrbStall(c)
      PROVE  CtlInv'
  BY <1>3 DEF UrbStall
<1>4. ASSUME NEW c \in Channels, UrbNak(c)
      PROVE  CtlInv'
  BY <1>4 DEF UrbNak
<1>5. ASSUME NEW c \in Channels, UrbError(c)
      PROVE  CtlInv'
  <2>1. CASE UNCHANGED wire
    BY <1>5, <2>1 DEF UrbError
  <2>2. CASE Complete(active[c]) /\ active[c] = "SETUP"
    BY <1>5, <2>2 DEF UrbError, Complete
  <2>3. CASE Complete(active[c]) /\ active[c] # "SETUP"
    BY <1>5, <2>3, StageInv DEF UrbError
  <2>4. QED
    BY <1>5, <2>1, <2>2, <2>3 DEF UrbError
<1>6. QED
  BY <1>1, <1>2, <1>3, <1>4, <1>5 DEF UrbIrq

LEMMA StepInv == CtlInv /\ [CtlNext]_ctlVars => CtlInv'
<1> SUFFICES ASSUME CtlInv, [CtlNext]_ctlVars
             PROVE  CtlInv'
  OBVIOUS
<1>1. CASE Poll
  BY <1>1, StartInv, ContinueInv DEF Poll, CtlReq
<1>2. CASE UrbIrq
  BY <1>2, IrqInv
<1>3. CASE UNCHANGED ctlVars
  BY <1>3 DEF ctlVars, CtlInv, CtlTypeOK, DataInKnown, DataOutKnown, StatusInKnown,
              StatusOutKnown, WaitKnown, NoLateSetup, DoneHalts
<1>4. QED
  BY <1>1, <1>2, <1>3 DEF CtlNext

(* The invariant holds in every reachable state of the engine.             *)
THEOREM CtlInvariant == CtlSpec => []CtlInv
<1>1. QED
  BY InitInv, StepInv, PTL DEF CtlSpec

(* The engine's variables keep their types; in particular errorcount never *)
(* exceeds USBH_MAX_ERROR_COUNT after a call of USBH_HandleControl.        *)
THEOREM CtlTypeCorrect == CtlSpec => []CtlTypeOK
<1>1. CtlInv => CtlTypeOK
  BY DEF CtlInv
<1>2. QED
  BY CtlInvariant, <1>1, PTL

(* USBH_CtlReq answers USBH_OK only when every stage of this very request  *)
(* was completed since it was sent.                                        *)
THEOREM CtlOkIsComplete == CtlSpec => OkIsComplete
<1>1. CtlInv => [ContinueRequest("OK") => StagesOf(setup) \subseteq wire]_ctlVars
  <2> SUFFICES ASSUME CtlInv, ContinueRequest("OK")
               PROVE  StagesOf(setup) \subseteq wire
    OBVIOUS
  <2>1. \/ ctrlState = "CTRL_STATUS_IN_WAIT" /\ urb["in"] = "DONE"
        \/ ctrlState = "CTRL_STATUS_OUT_WAIT" /\ urb["out"] = "DONE"
    BY DEF ContinueRequest, HandleControl, Setup, SetupWait, DataIn, DataInWait,
           DataOut, DataOutWait, StatusIn, StatusInWait, StatusOut, StatusOutWait,
           SendStage, Retry, GiveUp
  <2>2. QED
    BY <2>1 DEF CtlInv, StatusInKnown, StatusOutKnown, WaitKnown
<1>2. QED
  BY CtlInvariant, <1>1, PTL DEF OkIsComplete

----------------------------------------------------------------------------
(* The engine implements ControlTransfer.                                  *)

LEMMA ContinueImplements ==
  ASSUME CtlInv, NEW status \in Status, ContinueRequest(status)
  PROVE  [Abstract!Next]_Abstract!vars
<1> USE ControlAssumption DEF Abstract!vars
<1>1. PICK next \in CtrlStates :
        /\ requestState = "CMD_WAIT" /\ HandleControl(next, status)
        /\ requestState' = IF status # "BUSY" \/ next = "CTRL_SETUP"
                           THEN "CMD_SEND" ELSE "CMD_WAIT"
        /\ UNCHANGED <<setup, wire>>
  BY DEF ContinueRequest
<1>2. CASE Retry(next, status)
  <2>1. Abstract!TryAgain
    BY <1>1, <1>2 DEF Retry, CtlInv, CtlTypeOK, Abstract!TryAgain, Abstract!End
  <2>2. QED
    BY <2>1 DEF Abstract!Next
<1>3. CASE GiveUp(next, status)
  <2>1. Abstract!GiveUp
    BY <1>1, <1>3 DEF GiveUp, CtlInv, CtlTypeOK, Abstract!GiveUp, Abstract!End
  <2>2. QED
    BY <2>1 DEF Abstract!Next
<1>4. CASE ~Retry(next, status) /\ ~GiveUp(next, status)
  <2>1. UNCHANGED errorcount /\ next # "CTRL_SETUP"
    BY <1>1, <1>4 DEF HandleControl, Setup, SetupWait, DataIn, DataInWait, DataOut,
      DataOutWait, StatusIn, StatusInWait, StatusOut, StatusOutWait, SendStage, AfterSetup,
      CtlInv, CtlTypeOK
  <2>2. CASE status = "BUSY"
    BY <1>1, <2>1, <2>2
  <2>3. CASE status = "OK"
    <3>1. StagesOf(setup) \subseteq wire
      <4>1. \/ ctrlState = "CTRL_STATUS_IN_WAIT" /\ urb["in"] = "DONE"
            \/ ctrlState = "CTRL_STATUS_OUT_WAIT" /\ urb["out"] = "DONE"
        BY <1>1, <1>4, <2>3 DEF HandleControl, Setup, SetupWait, DataIn, DataInWait,
          DataOut, DataOutWait, StatusIn, StatusInWait, StatusOut, StatusOutWait, SendStage
      <4>2. QED
        BY <4>1 DEF CtlInv, StatusInKnown, StatusOutKnown, WaitKnown
    <3>2. Abstract!Required(setup) \subseteq wire
      BY <3>1 DEF Abstract!Required, StagesOf, DataStage, StatusStage, CtlInv, CtlTypeOK
    <3>3. Abstract!Succeed
      BY <1>1, <2>1, <2>3, <3>2 DEF Abstract!Succeed, Abstract!End
    <3>4. QED
      BY <3>3 DEF Abstract!Next
  <2>4. CASE status \in {"NOT_SUPPORTED", "FAIL"}
    <3>1. "SETUP" \in wire
      BY <1>1, <1>4, <2>4 DEF HandleControl, Setup, SetupWait, DataIn, DataInWait,
        DataOut, DataOutWait, StatusIn, StatusInWait, StatusOut, StatusOutWait, SendStage,
        CtlInv, DataInKnown, DataOutKnown, StatusInKnown, StatusOutKnown, StagesOf,
        StatusStage
    <3>2. Abstract!Refuse
      BY <1>1, <2>1, <2>4, <3>1 DEF Abstract!Refuse, Abstract!End
    <3>3. QED
      BY <3>2 DEF Abstract!Next
  <2>5. QED
    BY <2>2, <2>3, <2>4
<1>5. QED
  BY <1>2, <1>3, <1>4

LEMMA IrqImplements ==
  ASSUME CtlInv, UrbIrq
  PROVE  [Abstract!Next]_Abstract!vars
<1>1. UNCHANGED <<requestState, setup, errorcount>>
  BY DEF UrbIrq, UrbBabble, UrbDone, UrbStall, UrbNak, UrbError, ChannelIrq
<1>2. UNCHANGED wire \/ \E c \in Channels : active[c] # "none" /\ Complete(active[c])
  BY DEF UrbIrq, UrbBabble, UrbDone, UrbStall, UrbNak, UrbError, ChannelIrq
<1>3. CASE UNCHANGED wire
  BY <1>1, <1>3 DEF Abstract!vars
<1>4. CASE \E c \in Channels : active[c] # "none" /\ Complete(active[c])
  <2>1. Abstract!DeviceAcks
    BY <1>1, <1>4 DEF Complete, CtlInv, CtlTypeOK, Abstract!DeviceAcks, Abstract!Stages
  <2>2. QED
    BY <2>1 DEF Abstract!Next
<1>5. QED
  BY <1>2, <1>3, <1>4

(* Every behaviour of the engine is a behaviour of ControlTransfer: URBs,  *)
(* channels and polling hide nothing from the callers of USBH_CtlReq but   *)
(* what the abstract transfer allows.                                      *)
THEOREM CtlImplementsControlTransfer == CtlSpec => ControlTransferSpec
<1>1. CtlInit => Abstract!Init
  BY DEF CtlInit, Abstract!Init
<1>2. CtlInv /\ [CtlNext]_ctlVars => [Abstract!Next]_Abstract!vars
  <2> SUFFICES ASSUME CtlInv, [CtlNext]_ctlVars
               PROVE  [Abstract!Next]_Abstract!vars
    OBVIOUS
  <2>1. ASSUME NEW r \in Requests, NEW status \in Status, StartRequest(r, status)
        PROVE  [Abstract!Next]_Abstract!vars
    BY <2>1 DEF StartRequest, Abstract!Next, Abstract!Begin
  <2>2. CASE UrbIrq
    BY <2>2, IrqImplements
  <2>3. CASE UNCHANGED ctlVars
    BY <2>3 DEF ctlVars, Abstract!vars
  <2>4. QED
    BY <2>1, <2>2, <2>3, ContinueImplements DEF CtlNext, Poll, CtlReq
<1>3. QED
  BY CtlInvariant, <1>1, <1>2, PTL DEF CtlSpec, ControlTransferSpec, Abstract!Spec

=============================================================================
