--------------------------- MODULE MscDisk_proofs ---------------------------
(***************************************************************************)
(* Proofs about the mass-storage class and the disk driver, for every      *)
(* number of logical units a handle has room for and every number a device *)
(* may answer: types, the ownership of the outstanding                     *)
(* command, and what a unit that is reported ready is known to be.         *)
(***************************************************************************)
EXTENDS MscDisk, TLAPS

USE DEF HasHandle

(* In a session the application had let go of, the examination of the      *)
(* units and the transfers of the application follow each other.           *)
Turns ==
  Sound /\ HasHandle =>
    /\ mscState = "MSC_INIT" => app = "idle" /\ ~mounted
    /\ app # "idle" => handle = "current"

HandleKnown ==
  Sound /\ handle = "current" => HasHandle /\ mscState # "MSC_INIT"

LoopKnown == app # "idle" => result = "none"

TransferKnown ==
  Sound /\ HasHandle /\ app # "idle" /\ unit[0].state \in Transfers =>
    unit[0].state = app

(* The data of the outstanding command, and its unit.                      *)
DataKnown ==
  Sound /\ HasHandle /\ busy =>
    /\ cmd.op \in Transfers => cmd.len = (IF unit[0].block = "sized" THEN 1 ELSE 0)
    /\ answer = "passed" => moved = cmd.len
    /\ mscState = "MSC_INIT" => cmd.lun < maxLun

(* The units that are examined, of those the handle has room for.          *)
UnitsKnown ==
  Sound /\ HasHandle =>
    \A l \in Luns :
      /\ IF mscState = "MSC_INIT" THEN l < lun ELSE l < maxLun
      /\ unit[l].error = "MSC_OK"
      => unit[l].block # "unread"

(* The units are counted when the class is entered, and there is one at    *)
(* least, so that unit 0 is among those examined.                          *)
Counted ==
  /\ session = "opened" => maxLun = 0
  /\ session = "class" => maxLun >= 1
  /\ Sound /\ HasHandle /\ mscState # "MSC_INIT" => maxLun >= 1

DiskInv ==
  /\ DiskTypeOK
  /\ Turns /\ HandleKnown /\ LoopKnown /\ TransferKnown
  /\ OwnCommand /\ DataKnown
  /\ UnitsKnown /\ Counted /\ ErrorRecorded

----------------------------------------------------------------------------
LEMMA LunFacts ==
  /\ 0 \in Luns /\ 0 \in 0..MaxSupportedLun /\ MaxSupportedLun \in Nat \ {0}
  /\ \A l \in Luns : l \in 0..(MaxSupportedLun + 1) /\ l + 1 \in 0..(MaxSupportedLun + 1)
  /\ \A highest \in Answers : UnitsOf(highest) \in 1..(MaxSupportedLun + 1)
<1>1. MaxSupportedLun \in Nat \ {0} /\ \A highest \in Answers : highest \in Nat
  BY DiskAssumption
<1>2. QED
  BY <1>1 DEF Luns, UnitsOf

LEMMA CommandFacts ==
  ASSUME NEW o \in Asking \union Transfers, NEW l \in 0..MaxSupportedLun
  PROVE  /\ Command(o, l) \in Commands
         /\ Command(o, l).op = o /\ Command(o, l).lun = l
         /\ o \in Transfers => Command(o, l).len = IF unit[0].block = "sized" THEN 1 ELSE 0
<1>1. /\ Command(o, l).op = o /\ Command(o, l).lun = l /\ Command(o, l).len \in 0..1
      /\ Command(o, l) = [op |-> o, lun |-> l, len |-> Command(o, l).len]
  BY DEF Command
<1>2. o \in Transfers => Command(o, l).len = IF unit[0].block = "sized" THEN 1 ELSE 0
  BY DEF Command, Transfers
<1>3. Command(o, l) \in Commands
  BY <1>1 DEF Commands
<1>4. QED
  BY <1>1, <1>2, <1>3

(* What a call does to the command outstanding.                            *)
LEMMA CallFacts ==
  ASSUME CommandTypeOK, NEW o \in Asking \union Transfers, NEW l \in 0..MaxSupportedLun,
         NEW status \in ScsiStatus, ScsiCall(o, l, status)
  PROVE  /\ CommandTypeOK'
         /\ status = "BUSY" => busy' /\ \/ cmd' = Command(o, l) /\ answer' = "none"
                                        \/ busy /\ UNCHANGED botVars
         /\ status # "BUSY" => /\ busy /\ ~busy' /\ UNCHANGED <<cmd, moved, answer>>
                               /\ status = "OK" <=> answer = "passed"
<1> USE DEF CommandTypeOK
<1>1. CASE status = "BUSY" /\ Bot!Begin /\ cmd' = Command(o, l)
  BY <1>1, CommandFacts DEF Bot!Begin
<1>2. CASE status = "BUSY" /\ busy /\ UNCHANGED botVars
  BY <1>2 DEF botVars
<1>3. CASE status = "OK" /\ Bot!End(TRUE)
  BY <1>3 DEF Bot!End
<1>4. CASE status = "FAIL" /\ Bot!End(FALSE)
  BY <1>4 DEF Bot!End
<1>5. QED
  BY <1>1, <1>2, <1>3, <1>4 DEF ScsiCall

LEMMA NewFacts == NoCommand \in Commands /\ NewUnit \in Unit
  BY LunFacts
  DEF NoCommand, NewUnit, Commands, Asking, Unit, UnitStates, Errors, Senses, BlockSizes

LEMMA InitInv == DiskInit => DiskInv
<1> SUFFICES ASSUME DiskInit PROVE DiskInv
  OBVIOUS
<1> USE DEF DiskInit, Session!Init
<1>1. HandleTypeOK
  <2>1. unit \in [Luns -> Unit] /\ lun \in 0..(MaxSupportedLun + 1)
        /\ maxLun \in 0..(MaxSupportedLun + 1)
    BY NewFacts, LunFacts
  <2>2. connected \in BOOLEAN /\ mounted \in BOOLEAN /\ late \in BOOLEAN
    OBVIOUS
  <2>3. QED
    BY <2>1, <2>2 DEF HandleTypeOK
<1>2. CommandTypeOK
  <2>1. busy \in BOOLEAN
    OBVIOUS
  <2>2. QED
    BY <2>1, NewFacts DEF CommandTypeOK
<1>3. AppTypeOK
  <2>1. overdue \in BOOLEAN /\ good \in BOOLEAN /\ clean \in BOOLEAN
    OBVIOUS
  <2>2. QED
    BY <2>1 DEF AppTypeOK, Transfers
<1>4. QED
  BY <1>1, <1>2, <1>3
  DEF DiskInv, DiskTypeOK, Turns, HandleKnown, LoopKnown, TransferKnown, OwnCommand, DataKnown,
      UnitsKnown, Counted, ErrorRecorded

(* A unit that takes another state and error.                              *)
LEMMA BecomesFacts ==
  ASSUME DiskTypeOK, lun \in Luns, NEW state \in UnitStates, NEW error \in Errors,
         Becomes(state, error)
  PROVE  /\ unit' \in [Luns -> Unit]
         /\ unit'[lun].state = state /\ unit'[lun].error = error
         /\ \A l \in Luns : unit'[l].block = unit[l].block /\ (l # lun => unit'[l] = unit[l])
  BY DEF DiskTypeOK, HandleTypeOK, Becomes, Unit

----------------------------------------------------------------------------
(* The USB thread: a step of the examination keeps the invariant if the    *)
(* command and the unit it leaves belong together.                         *)
LEMMA ExaminesInv ==
  ASSUME DiskInv, NEW state \in UnitStates, Examines(state),
         CommandTypeOK', late' \in BOOLEAN,
         unit' \in [Luns -> Unit], lun' \in 0..(MaxSupportedLun + 1),
         \A l \in Luns : l # lun => unit'[l] = unit[l],
         lun' = lun \/ (lun' = lun + 1 /\ (Sound => ~busy')
                         /\ (unit'[lun].error = "MSC_OK" => unit'[lun].block # "unread")),
         Sound /\ busy' =>
           /\ cmd'.op = unit'[lun].state /\ cmd'.lun = lun /\ cmd'.op \notin Transfers
           /\ answer' = "passed" => moved' = cmd'.len
  PROVE  DiskInv'
<1>1. lun \in Luns /\ lun < maxLun /\ session = "class" /\ mscState = "MSC_INIT"
  BY LunFacts DEF Examines, DiskInv, DiskTypeOK, HandleTypeOK
<1>2. UNCHANGED <<connected, session, mounted, mscState, maxLun, app, handle, overdue, result, good, clean>>
  BY DEF Examines, portVars, appVars
<1>3. DiskTypeOK'
  BY <1>2 DEF DiskInv, DiskTypeOK, HandleTypeOK, AppTypeOK
<1>4. /\ Turns' /\ HandleKnown' /\ LoopKnown' /\ TransferKnown' /\ Counted'
      /\ ErrorRecorded'
  BY <1>1, <1>2
  DEF DiskInv, Turns, HandleKnown, LoopKnown, TransferKnown, Counted, ErrorRecorded, Sound
<1>5. OwnCommand' /\ DataKnown'
  BY <1>1, <1>2 DEF DiskInv, OwnCommand, DataKnown, Sound
<1>6. UnitsKnown'
  <2> SUFFICES ASSUME Sound, NEW l \in Luns, l < lun', unit'[l].error = "MSC_OK"
               PROVE  unit'[l].block # "unread"
    BY <1>1, <1>2 DEF UnitsKnown, Sound
  <2>1. CASE l < lun
    BY <1>1, <2>1 DEF DiskInv, UnitsKnown, Luns
  <2>2. CASE ~(l < lun)
    BY <1>1, <2>2 DEF Luns
  <2>3. QED
    BY <2>1, <2>2
<1>7. QED
  BY <1>3, <1>4, <1>5, <1>6 DEF DiskInv

LEMMA AsksFacts ==
  ASSUME DiskInv, NEW state \in Asking, NEW status \in ScsiStatus, Asks(state, status)
  PROVE  /\ Examines(state) /\ state \in UnitStates
         /\ lun \in Luns /\ lun \in 0..(MaxSupportedLun + 1) /\ lun + 1 \in 0..(MaxSupportedLun + 1) /\ unit[lun].state = state
         /\ CommandTypeOK' /\ late' \in BOOLEAN
         /\ status # "BUSY" => ~busy'
         /\ Sound /\ busy' =>
              /\ cmd'.op = state /\ cmd'.lun = lun /\ cmd'.op \notin Transfers
              /\ answer' = "passed" => moved' = cmd'.len
<1>1. /\ Examines(state) /\ session = "class" /\ mscState = "MSC_INIT" /\ unit[lun].state = state
      /\ ScsiCall(state, lun, status) /\ late' = late /\ lun \in Luns
  BY DEF Asks, Examines
<1>2. /\ lun \in Luns /\ lun \in 0..(MaxSupportedLun + 1) /\ lun + 1 \in 0..(MaxSupportedLun + 1)
      /\ lun \in 0..MaxSupportedLun /\ late' \in BOOLEAN
  BY <1>1, LunFacts DEF DiskInv, DiskTypeOK, HandleTypeOK, Luns
<1>3. state \in UnitStates /\ state \notin Transfers /\ state \in Asking \union Transfers
  BY DEF Asking, UnitStates, Transfers
<1>4. CommandTypeOK
  BY DEF DiskInv, DiskTypeOK
<1>5. /\ CommandTypeOK'
      /\ status = "BUSY" => busy' /\ \/ cmd' = Command(state, lun) /\ answer' = "none"
                                     \/ busy /\ UNCHANGED botVars
      /\ status # "BUSY" => ~busy'
  BY <1>1, <1>2, <1>3, <1>4, CallFacts
<1>6. ASSUME Sound, busy'
      PROVE  /\ cmd'.op = state /\ cmd'.lun = lun /\ cmd'.op \notin Transfers
             /\ answer' = "passed" => moved' = cmd'.len
  <2>1. CASE cmd' = Command(state, lun) /\ answer' = "none"
    BY <1>2, <1>3, <2>1, CommandFacts
  <2>2. CASE busy /\ UNCHANGED botVars
    BY <1>1, <1>3, <1>6, <2>2 DEF botVars, DiskInv, OwnCommand, DataKnown
  <2>3. QED
    BY <1>5, <1>6, <2>1, <2>2 DEF ScsiStatus
<1>7. QED
  BY <1>1, <1>2, <1>3, <1>5, <1>6

(* A unit behind the array is not examined in a sound session.             *)
LEMMA OverrunInv ==
  ASSUME DiskInv, Overrun
  PROVE  DiskInv'
<1>1. /\ session = "class" /\ mscState = "MSC_INIT" /\ lun < maxLun /\ lun \notin Luns
      /\ lun' = maxLun
      /\ UNCHANGED <<portVars, mscState, maxLun, unit, late, appVars, clean>>
  BY DEF Overrun
<1>2. /\ DiskTypeOK /\ lun \in 0..(MaxSupportedLun + 1) /\ maxLun \in 0..(MaxSupportedLun + 1)
      /\ MaxSupportedLun \in Nat
  BY LunFacts DEF DiskInv, DiskTypeOK, HandleTypeOK
<1>3. lun = MaxSupportedLun /\ ~(maxLun <= MaxSupportedLun)
  BY <1>1, <1>2 DEF Luns
<1>4. CommandTypeOK'
  <2>1. lun \in 0..MaxSupportedLun
    BY <1>2, <1>3
  <2>2. "MSC_TEST_UNIT_READY" \in Asking \union Transfers /\ CommandTypeOK
    BY <1>2 DEF Asking, DiskTypeOK
  <2>3. CASE UNCHANGED botVars
    BY <2>2, <2>3 DEF CommandTypeOK, botVars
  <2>4. ASSUME NEW status \in ScsiStatus, ScsiCall("MSC_TEST_UNIT_READY", lun, status)
        PROVE  CommandTypeOK'
    BY <2>1, <2>2, <2>4, CallFacts
  <2>5. QED
    BY <2>3, <2>4 DEF Overrun
<1>5. DiskTypeOK'
  BY <1>1, <1>2, <1>4 DEF DiskTypeOK, HandleTypeOK, AppTypeOK, portVars, appVars
<1>6. ~Sound'
  BY <1>1, <1>3 DEF Sound
<1>7. LoopKnown' /\ Counted'
  BY <1>1, <1>6 DEF DiskInv, LoopKnown, Counted, portVars, appVars
<1>8. QED
  BY <1>5, <1>6, <1>7
  DEF DiskInv, Turns, HandleKnown, TransferKnown, OwnCommand, DataKnown, UnitsKnown,
      ErrorRecorded

LEMMA ClassInv ==
  ASSUME DiskInv, ClassProcess
  PROVE  DiskInv'
<1> USE DEF UnitStates, Errors
<1>0. DiskTypeOK
  BY DEF DiskInv
<1>1. ASSUME NEW state \in Asking, Asks(state, "BUSY"), Becomes(state, "MSC_NOT_READY"),
             UNCHANGED lun
      PROVE  DiskInv'
  BY <1>0, <1>1, AsksFacts, BecomesFacts, ExaminesInv DEF ScsiStatus
<1>2. CASE ExamineUnit
  <2>1. lun \in Luns /\ lun \in 0..(MaxSupportedLun + 1) /\ Examines("MSC_INIT") /\ CommandTypeOK'
    BY <1>0, <1>2, LunFacts
    DEF ExamineUnit, Examines, DiskTypeOK, HandleTypeOK, CommandTypeOK, botVars
  <2>2. Sound => ~busy
    BY <2>1 DEF DiskInv, OwnCommand, Examines, DiskTypeOK, CommandTypeOK, Commands, Asking,
      Transfers
  <2>3. Becomes("MSC_READ_INQUIRY", "MSC_NOT_READY") /\ UNCHANGED <<lun, botVars>> /\ late' = FALSE
    BY <1>2 DEF ExamineUnit
  <2>4. QED
    BY <1>0, <2>1, <2>2, <2>3, BecomesFacts, ExaminesInv DEF botVars
<1>3. CASE UnrecoveredError
  <2>1. lun \in Luns /\ lun \in 0..(MaxSupportedLun + 1) /\ lun + 1 \in 0..(MaxSupportedLun + 1)
        /\ Examines("MSC_UNRECOVERED_ERROR") /\ CommandTypeOK' /\ late' \in BOOLEAN
    BY <1>0, <1>3, LunFacts
    DEF UnrecoveredError, Examines, DiskTypeOK, HandleTypeOK, CommandTypeOK, botVars
  <2>2. Sound => ~busy
    BY <2>1 DEF DiskInv, OwnCommand, Examines, DiskTypeOK, CommandTypeOK, Commands, Asking,
      Transfers
  <2>3. Becomes("MSC_UNRECOVERED_ERROR", "MSC_NOT_READY") /\ lun' = lun + 1
        /\ UNCHANGED <<late, botVars>>
    BY <1>3 DEF UnrecoveredError
  <2>4. /\ unit' \in [Luns -> Unit] /\ unit'[lun].error = "MSC_NOT_READY"
        /\ \A l \in Luns : l # lun => unit'[l] = unit[l]
    BY <1>0, <2>1, <2>3, BecomesFacts
  <2>5. Sound => ~busy'
    BY <2>2, <2>3 DEF botVars
  <2>6. QED
    BY <2>1, <2>3, <2>4, <2>5, ExaminesInv
<1>4. CASE ClassActive
  <2>1. Sound => ~busy
    BY <1>0, <1>4
    DEF ClassActive, Session!Activate, DiskInv, OwnCommand, DataKnown, Sound, DiskTypeOK,
        HandleTypeOK
  <2>2. DiskTypeOK'
    <3>0. lun' \in 0..(MaxSupportedLun + 1)
      BY <1>4, LunFacts DEF ClassActive
    <3>1. mounted' \in BOOLEAN
      BY <1>0, <1>4, Zenon DEF ClassActive, Session!Activate, DiskTypeOK, HandleTypeOK
    <3>2. HandleTypeOK'
      BY <1>0, <1>4, <3>0, <3>1 DEF ClassActive, Session!Activate, DiskTypeOK, HandleTypeOK
    <3>3. CommandTypeOK' /\ AppTypeOK'
      BY <1>0, <1>4 DEF ClassActive, DiskTypeOK, CommandTypeOK, AppTypeOK, botVars, appVars
    <3> QED BY <3>2, <3>3 DEF DiskTypeOK
  <2>3. UnitsKnown' /\ Counted'
    BY <1>4
    DEF ClassActive, Session!Activate, DiskInv, UnitsKnown, Counted, Sound, Luns, DiskTypeOK,
        HandleTypeOK
  <2>4. QED
    BY <1>4, <2>1, <2>2, <2>3
    DEF ClassActive, Session!Activate, DiskInv, Turns, HandleKnown, LoopKnown, TransferKnown,
        OwnCommand, DataKnown, ErrorRecorded, Sound, botVars, appVars
<1>5. ASSUME NEW status \in ScsiStatus, Inquiry(status)
      PROVE  DiskInv'
  BY <1>0, <1>5, AsksFacts, BecomesFacts, ExaminesInv DEF Inquiry, Asking
<1>6. ASSUME NEW status \in ScsiStatus, TestUnitReady(status)
      PROVE  DiskInv'
  BY <1>0, <1>6, AsksFacts, BecomesFacts, ExaminesInv DEF TestUnitReady, Asking
<1>7. ASSUME NEW status \in ScsiStatus, ReadCapacity(status)
      PROVE  DiskInv'
  <2>1. Asks("MSC_READ_CAPACITY10", status) /\ "MSC_READ_CAPACITY10" \in Asking
    BY <1>7 DEF ReadCapacity, Asking
  <2>2. CASE status = "OK"
    <3>1. PICK block \in Answered :
            lun' = lun + 1 /\ unit' = [unit EXCEPT ![lun].state = "MSC_IDLE",
                                                   ![lun].error = "MSC_OK", ![lun].block = block]
      BY <1>7, <2>2 DEF ReadCapacity
    <3>2. block \in BlockSizes /\ block # "unread"
      BY DEF Answered, BlockSizes
    <3>3. /\ unit' \in [Luns -> Unit] /\ unit'[lun].block # "unread"
          /\ \A l \in Luns : l # lun => unit'[l] = unit[l]
      <4>1. lun \in Luns /\ unit \in [Luns -> Unit]
        BY <1>0, <2>1, AsksFacts DEF DiskTypeOK, HandleTypeOK
      <4>2. \A l \in Luns : l # lun => unit'[l] = unit[l]
        BY <3>1, <4>1
      <4>3. unit'[lun] = [unit[lun] EXCEPT !.state = "MSC_IDLE", !.error = "MSC_OK", !.block = block]
        BY <3>1, <4>1 DEF Unit
      <4>4. unit'[lun] \in Unit /\ unit'[lun].block # "unread"
        BY <3>2, <4>1, <4>3 DEF Unit
      <4>5. QED
        BY <3>1, <4>1, <4>2, <4>4
    <3>4. QED
      BY <2>1, <2>2, <3>1, <3>3, AsksFacts, ExaminesInv
  <2>3. CASE status = "FAIL"
    BY <1>0, <1>7, <2>1, <2>3, AsksFacts, BecomesFacts, ExaminesInv DEF ReadCapacity
  <2>4. QED
    BY <1>7, <2>2, <2>3 DEF ReadCapacity
<1>8. ASSUME NEW status \in ScsiStatus, RequestSense(status)
      PROVE  DiskInv'
  <2>1. Asks("MSC_REQUEST_SENSE", status) /\ "MSC_REQUEST_SENSE" \in Asking
    BY <1>8 DEF RequestSense, Asking
  <2>2. CASE status = "OK"
    <3>1. PICK sense \in Senses, again \in BOOLEAN :
            /\ unit' = [unit EXCEPT ![lun].error = "MSC_NOT_READY", ![lun].sense = sense,
                          ![lun].state = IF again THEN "MSC_TEST_UNIT_READY" ELSE "MSC_IDLE"]
            /\ lun' = IF again THEN lun ELSE lun + 1
      <4>1. PICK data \in Senses, again \in BOOLEAN :
              /\ unit' = [unit EXCEPT ![lun].error = "MSC_NOT_READY", ![lun].sense = Kept(data),
                            ![lun].state = IF again THEN "MSC_TEST_UNIT_READY" ELSE "MSC_IDLE"]
              /\ lun' = IF again THEN lun ELSE lun + 1
        BY <1>8, <2>2 DEF RequestSense
      <4>2. Kept(data) \in Senses
        BY DEF Kept, Senses
      <4>3. QED
        BY <4>1, <4>2
    <3>2. lun \in Luns /\ unit \in [Luns -> Unit]
      BY <1>0, <2>1, AsksFacts DEF DiskTypeOK, HandleTypeOK
    <3>3. CASE again
      <4>1. /\ unit' \in [Luns -> Unit] /\ unit'[lun].error = "MSC_NOT_READY"
            /\ \A l \in Luns : l # lun => unit'[l] = unit[l]
        BY <3>1, <3>2, <3>3 DEF Unit
      <4>2. unit'[lun].state = "MSC_TEST_UNIT_READY"
        BY <3>1, <3>2, <3>3 DEF Unit
      <4>3. QED
        BY <2>1, <2>2, <3>1, <3>3, <4>1, <4>2, AsksFacts, ExaminesInv
    <3>4. CASE ~again
      <4>1. /\ unit' \in [Luns -> Unit] /\ unit'[lun].error = "MSC_NOT_READY"
            /\ \A l \in Luns : l # lun => unit'[l] = unit[l]
        BY <3>1, <3>2, <3>4 DEF Unit
      <4>2. QED
        BY <2>1, <2>2, <3>1, <3>4, <4>1, AsksFacts, ExaminesInv
    <3>5. QED
      BY <3>3, <3>4
  <2>3. CASE status = "FAIL"
    BY <1>0, <1>8, <2>1, <2>3, AsksFacts, BecomesFacts, ExaminesInv DEF RequestSense
  <2>4. QED
    BY <1>8, <2>2, <2>3 DEF RequestSense
<1>9. CASE Overrun
  BY <1>9, OverrunInv
<1>10. QED
  BY <1>1, <1>2, <1>3, <1>4, <1>5, <1>6, <1>7, <1>8, <1>9 DEF ClassProcess, ClassWaits

----------------------------------------------------------------------------
(* The application's thread.                                               *)
LEMMA RefusedInv ==
  ASSUME DiskInv, NEW o \in Transfers, Refused(o)
  PROVE  DiskInv'
<1>1. /\ result' \in Failures /\ app = "idle"
      /\ UNCHANGED <<portVars, mscState, maxLun, lun, unit, late, botVars, app, handle,
                     overdue, good, clean>>
  BY DEF Refused, handleVars
<1>2. DiskTypeOK'
  BY <1>1 DEF DiskInv, DiskTypeOK, HandleTypeOK, CommandTypeOK, AppTypeOK, portVars, botVars
<1>3. QED
  BY <1>1, <1>2
  DEF DiskInv, Turns, HandleKnown, LoopKnown, TransferKnown, OwnCommand, DataKnown, UnitsKnown,
      Counted, ErrorRecorded, Sound, Failures, portVars, botVars

LEMMA BeginInv ==
  ASSUME DiskInv, NEW o \in Transfers, BeginTransfer(o)
  PROVE  DiskInv'
<1>1. /\ app = "idle" /\ mounted /\ session = "class" /\ unit[0].state = "MSC_IDLE"
      /\ app' = o /\ handle' = "current" /\ overdue' = FALSE
      /\ result' = "none" /\ good' = FALSE
      /\ mscState' = o /\ unit' = [unit EXCEPT ![0].state = o]
      /\ UNCHANGED <<portVars, maxLun, lun, late, clean>>
  BY DEF BeginTransfer, Ready
<1>2. PICK status \in ScsiStatus : ScsiCall(o, 0, status)
  BY DEF BeginTransfer
<1>3. DiskTypeOK /\ unit \in [Luns -> Unit] /\ 0 \in Luns
  BY LunFacts DEF DiskInv, DiskTypeOK, HandleTypeOK
<1>4. /\ CommandTypeOK'
      /\ status = "BUSY" => busy' /\ \/ cmd' = Command(o, 0) /\ answer' = "none"
                                     \/ busy /\ UNCHANGED botVars
      /\ status # "BUSY" => ~busy'
  BY <1>2, <1>3, LunFacts, CallFacts DEF DiskTypeOK
<1>5. /\ unit' \in [Luns -> Unit] /\ unit'[0].state = o
      /\ \A l \in Luns : unit'[l].block = unit[l].block /\ unit'[l].error = unit[l].error
  BY <1>1, <1>3 DEF Unit, UnitStates, Transfers
<1>6. DiskTypeOK'
  <2>1. HandleTypeOK'
    BY <1>1, <1>3, <1>5 DEF DiskTypeOK, HandleTypeOK, portVars, Transfers
  <2>2. AppTypeOK'
    BY <1>1, <1>3 DEF DiskTypeOK, AppTypeOK, Transfers
  <2>3. QED
    BY <1>4, <2>1, <2>2 DEF DiskTypeOK
<1>7. mscState' # "MSC_INIT"
  BY <1>1 DEF Transfers
<1>8. Sound => mscState # "MSC_INIT" /\ ~busy
  BY <1>1, <1>3
  DEF DiskInv, Turns, OwnCommand, DiskTypeOK, CommandTypeOK, Commands, Asking, Transfers
<1>9. OwnCommand' /\ DataKnown'
  BY <1>1, <1>3, <1>4, <1>5, <1>7, <1>8, LunFacts, CommandFacts
  DEF OwnCommand, DataKnown, Sound, ScsiStatus
<1>10. QED
  BY <1>1, <1>5, <1>6, <1>7, <1>8, <1>9
  DEF DiskInv, Turns, HandleKnown, LoopKnown, TransferKnown, UnitsKnown, Counted, ErrorRecorded,
      Sound, portVars

(* One call of USBH_MSC_RdWrProcess.                                       *)
LEMMA RdWrFacts ==
  ASSUME DiskInv, app # "idle", NEW error \in {"BUSY", "OK", "FAIL"}, RdWrProcess(error)
  PROVE  /\ unit' \in [Luns -> Unit] /\ CommandTypeOK' /\ good' \in BOOLEAN
         /\ ~HasHandle => error = "BUSY" /\ UNCHANGED <<unit, botVars, good>>
         /\ \A l \in Luns : unit'[l].block = unit[l].block
                            /\ (unit'[l].error = "MSC_OK" => unit[l].error = "MSC_OK")
         /\ Sound /\ HasHandle =>
              /\ unit'[0].state \in Transfers => unit'[0].state = app
              /\ busy' => /\ cmd'.op = unit'[0].state /\ cmd'.lun = 0
                          /\ cmd'.op \in Transfers => cmd'.len = (IF unit[0].block = "sized" THEN 1 ELSE 0)
                          /\ answer' = "passed" => moved' = cmd'.len
              /\ error # "BUSY" /\ ~good' /\ unit[0].block # "zero" => unit'[0].error # "MSC_OK"
<1>1. /\ unit \in [Luns -> Unit] /\ 0 \in Luns /\ unit[0] \in Unit /\ CommandTypeOK
      /\ good \in BOOLEAN /\ app \in Transfers /\ 0 \in 0..MaxSupportedLun
  BY LunFacts DEF DiskInv, DiskTypeOK, HandleTypeOK, AppTypeOK, Luns
<1>2. Sound /\ HasHandle =>
        /\ mscState # "MSC_INIT"
        /\ unit[0].state \in Transfers => unit[0].state = app
        /\ unit[0].error = "MSC_OK" => unit[0].block # "unread"
        /\ busy => /\ cmd.op = unit[0].state /\ cmd.lun = 0
                   /\ cmd.op \in Transfers => cmd.len = (IF unit[0].block = "sized" THEN 1 ELSE 0)
                   /\ answer = "passed" => moved = cmd.len
  BY <1>1
  DEF DiskInv, DiskTypeOK, HandleTypeOK, Turns, TransferKnown, OwnCommand, DataKnown, UnitsKnown,
      Counted
<1>3. CASE Transfer(error) /\ HasHandle
  <2>1. PICK status \in ScsiStatus :
          /\ unit[0].state \in Transfers /\ ScsiCall(unit[0].state, 0, status)
          /\ error = IF status = "OK" THEN "OK" ELSE "BUSY"
          /\ unit' = [unit EXCEPT ![0].state = CASE status = "OK"   -> "MSC_IDLE"
                                                 [] status = "FAIL" -> "MSC_REQUEST_SENSE"
                                                 [] status = "BUSY" -> @]
          /\ good' = (status = "OK" /\ cmd.op = app /\ moved = 1)
    BY <1>3 DEF Transfer
  <2>2. /\ CommandTypeOK'
        /\ status = "BUSY" => busy' /\ \/ cmd' = Command(unit[0].state, 0) /\ answer' = "none"
                                       \/ busy /\ UNCHANGED botVars
        /\ status # "BUSY" => /\ busy /\ ~busy' /\ UNCHANGED <<cmd, moved, answer>>
                              /\ status = "OK" <=> answer = "passed"
    BY <1>1, <2>1, CallFacts
  <2>3. /\ unit' \in [Luns -> Unit]
        /\ \A l \in Luns : unit'[l].block = unit[l].block /\ unit'[l].error = unit[l].error
        /\ status = "BUSY" => unit'[0].state = unit[0].state
        /\ status # "BUSY" => unit'[0].state \in {"MSC_IDLE", "MSC_REQUEST_SENSE"}
    BY <1>1, <2>1 DEF Unit, UnitStates, ScsiStatus, Transfers
  <2>4. ASSUME Sound, error # "BUSY", ~good', unit[0].block # "zero"
        PROVE  unit'[0].error # "MSC_OK"
    <3>1. status = "OK" /\ busy /\ answer = "passed" /\ cmd.op = app /\ moved = cmd.len /\ moved # 1
      BY <1>2, <1>3, <2>1, <2>2, <2>4
    <3>2. unit[0].block = "unread"
      BY <1>1, <1>2, <1>3, <2>1, <2>4, <3>1 DEF Unit, BlockSizes
    <3>3. QED
      BY <1>1, <1>2, <1>3, <2>3, <2>4, <3>2
  <2>5. ASSUME Sound, busy'
        PROVE  /\ cmd'.op = unit'[0].state /\ cmd'.lun = 0
               /\ cmd'.op \in Transfers => cmd'.len = (IF unit[0].block = "sized" THEN 1 ELSE 0)
               /\ answer' = "passed" => moved' = cmd'.len
    <3>1. status = "BUSY"
      BY <2>2, <2>5
    <3>2. CASE cmd' = Command(unit[0].state, 0) /\ answer' = "none"
      BY <1>1, <2>1, <2>3, <3>1, <3>2, CommandFacts
    <3>3. CASE busy /\ UNCHANGED botVars
      BY <1>2, <1>3, <2>3, <2>5, <3>1, <3>3 DEF botVars
    <3>4. QED
      BY <2>2, <3>1, <3>2, <3>3
  <2>6. good' \in BOOLEAN
    BY <2>1
  <2>7. Sound => (unit'[0].state \in Transfers => unit'[0].state = app)
    BY <1>2, <1>3, <2>1, <2>3 DEF Transfers
  <2>8. QED
    BY <1>3, <2>2, <2>3, <2>4, <2>5, <2>6, <2>7
<1>4. CASE TransferSense(error) /\ HasHandle
  <2>1. PICK status \in ScsiStatus :
          /\ unit[0].state = "MSC_REQUEST_SENSE" /\ ScsiCall("MSC_REQUEST_SENSE", 0, status)
          /\ error = IF status = "OK" THEN "FAIL" ELSE "BUSY"
          /\ IF status # "OK" THEN UNCHANGED unit
             ELSE \E sense \in Senses :
                    unit' = [unit EXCEPT ![0].state = "MSC_IDLE", ![0].error = "MSC_ERROR",
                                         ![0].sense = sense]
          /\ UNCHANGED good
    BY <1>4 DEF TransferSense
  <2>2. /\ CommandTypeOK'
        /\ status = "BUSY" => busy' /\ \/ cmd' = Command("MSC_REQUEST_SENSE", 0) /\ answer' = "none"
                                       \/ busy /\ UNCHANGED botVars
        /\ status # "BUSY" => ~busy'
    BY <1>1, <2>1, CallFacts DEF Asking
  <2>3. CASE status = "OK"
    <3>1. PICK sense \in Senses :
            unit' = [unit EXCEPT ![0].state = "MSC_IDLE", ![0].error = "MSC_ERROR",
                                 ![0].sense = sense]
      BY <2>1, <2>3
    <3>2. /\ \A l \in Luns : l # 0 => unit'[l] = unit[l]
          /\ unit'[0] = [unit[0] EXCEPT !.state = "MSC_IDLE", !.error = "MSC_ERROR", !.sense = sense]
      BY <1>1, <3>1 DEF Unit
    <3>3. /\ unit'[0] \in Unit /\ unit'[0].state = "MSC_IDLE" /\ unit'[0].error = "MSC_ERROR"
          /\ unit'[0].block = unit[0].block
      BY <1>1, <3>2 DEF Unit, UnitStates, Errors
    <3>4. unit' \in [Luns -> Unit]
      BY <1>1, <3>1, <3>2, <3>3
    <3>5. QED
      BY <1>1, <1>4, <2>1, <2>2, <2>3, <3>2, <3>3, <3>4 DEF Transfers
  <2>4. CASE status # "OK"
    <3>1. UNCHANGED <<unit, good>> /\ error = "BUSY"
      BY <2>1, <2>4
    <3>2. ASSUME Sound, busy'
          PROVE  /\ cmd'.op = unit'[0].state /\ cmd'.lun = 0 /\ cmd'.op \notin Transfers
                 /\ answer' = "passed" => moved' = cmd'.len
      <4>1. CASE cmd' = Command("MSC_REQUEST_SENSE", 0) /\ answer' = "none"
        BY <1>1, <2>1, <3>1, <4>1, CommandFacts DEF Asking, Transfers
      <4>2. CASE busy /\ UNCHANGED botVars
        BY <1>2, <1>4, <2>1, <3>1, <3>2, <4>2 DEF botVars, Transfers
      <4>3. QED
        BY <2>2, <3>2, <4>1, <4>2
    <3>3. QED
      BY <1>1, <1>4, <2>1, <2>2, <3>1, <3>2 DEF Transfers
  <2>5. QED
    BY <2>3, <2>4
<1>5. CASE ~HasHandle \/ TransferElse(error)
  <2>1. error = "BUSY" /\ UNCHANGED <<unit, botVars, good>>
    BY <1>5 DEF RdWrProcess, TransferElse
  <2>2. CommandTypeOK'
    BY <1>1, <2>1 DEF CommandTypeOK, botVars
  <2>3. QED
    BY <1>1, <1>2, <2>1, <2>2 DEF botVars
<1>6. QED
  BY <1>3, <1>4, <1>5 DEF RdWrProcess

LEMMA PollInv ==
  ASSUME DiskInv, PollTransfer
  PROVE  DiskInv'
<1>1. PICK error \in {"BUSY", "OK", "FAIL"} :
        RdWrProcess(error) /\ (EndTransfer(error) \/ KeepPolling(error))
  BY DEF PollTransfer
<1>2. app # "idle" /\ UNCHANGED <<portVars, maxLun, lun, late, handle, clean>>
  BY <1>1 DEF PollTransfer, EndTransfer, KeepPolling
<1>3. DiskTypeOK
  BY DEF DiskInv
<1>4. /\ app' \in {"idle", app} /\ overdue' \in BOOLEAN
      /\ mscState' \in {mscState, "MSC_IDLE"}
      /\ app' # "idle" => result' = "none"
      /\ result' \in {"none", "RES_OK"} \union Failures
      /\ result' = "RES_OK" => error # "BUSY"
      /\ handle = "current" => mscState' = "MSC_IDLE" \/ mscState' = mscState
  <2>1. CASE EndTransfer(error)
    <3>1. app' = "idle" /\ overdue' = FALSE /\ mscState' \in {mscState, "MSC_IDLE"}
      BY <1>3, <2>1 DEF EndTransfer, Releases, DiskTypeOK, AppTypeOK
    <3>2. \/ error # "BUSY" /\ result' = "RES_OK"
          \/ error = "BUSY" /\ result' \in Failures
      BY <2>1 DEF EndTransfer
    <3>3. QED
      BY <3>1, <3>2 DEF Failures
  <2>2. CASE KeepPolling(error)
    BY <1>2, <1>3, <2>2 DEF KeepPolling, DiskInv, LoopKnown, DiskTypeOK, AppTypeOK
  <2>3. QED
    BY <1>1, <2>1, <2>2
<1>5. /\ unit' \in [Luns -> Unit] /\ CommandTypeOK' /\ good' \in BOOLEAN
      /\ \A l \in Luns : unit'[l].block = unit[l].block
                         /\ (unit'[l].error = "MSC_OK" => unit[l].error = "MSC_OK")
      /\ Sound /\ HasHandle =>
           /\ unit'[0].state \in Transfers => unit'[0].state = app
           /\ busy' => /\ cmd'.op = unit'[0].state /\ cmd'.lun = 0
                       /\ cmd'.op \in Transfers => cmd'.len = (IF unit[0].block = "sized" THEN 1 ELSE 0)
                       /\ answer' = "passed" => moved' = cmd'.len
           /\ error # "BUSY" /\ ~good' /\ unit[0].block # "zero" => unit'[0].error # "MSC_OK"
  BY <1>1, <1>2, RdWrFacts
<1>6. DiskTypeOK'
  <2>1. HandleTypeOK'
    BY <1>2, <1>3, <1>4, <1>5 DEF DiskTypeOK, HandleTypeOK, portVars
  <2>2. AppTypeOK'
    BY <1>2, <1>3, <1>4, <1>5 DEF DiskTypeOK, AppTypeOK
  <2>3. QED
    BY <1>5, <2>1, <2>2 DEF DiskTypeOK
<1>7. Sound /\ HasHandle => mscState # "MSC_INIT" /\ mscState' # "MSC_INIT"
  BY <1>2, <1>4 DEF DiskInv, Turns
<1>8. UNCHANGED <<session, mounted, clean, handle, lun, maxLun>> /\ 0 \in Luns
  BY <1>2, LunFacts DEF portVars
<1>9. Turns' /\ HandleKnown' /\ LoopKnown' /\ TransferKnown'
  BY <1>2, <1>4, <1>5, <1>7, <1>8
  DEF DiskInv, Turns, HandleKnown, LoopKnown, TransferKnown, Sound
<1>10. OwnCommand' /\ DataKnown'
  BY <1>5, <1>7, <1>8 DEF OwnCommand, DataKnown, Sound
<1>11. UnitsKnown' /\ Counted'
  BY <1>5, <1>7, <1>8 DEF DiskInv, UnitsKnown, Counted, Sound
<1>12. ErrorRecorded'
  BY <1>4, <1>5, <1>8 DEF DiskInv, HandleKnown, ErrorRecorded, Sound
<1>13. QED
  BY <1>6, <1>9, <1>10, <1>11, <1>12 DEF DiskInv

----------------------------------------------------------------------------
(* Time, the device, and the session.                                      *)
LEMMA EnvironmentInv ==
  ASSUME DiskInv, Environment
  PROVE  DiskInv'
<1>1. DiskTypeOK
  BY DEF DiskInv
<1>2. CASE TenSeconds
  <2>1. UNCHANGED <<portVars, mscState, maxLun, lun, unit, botVars, appVars, clean>> /\ late' = TRUE
    BY <1>2 DEF TenSeconds
  <2>2. DiskTypeOK'
    BY <1>1, <2>1
    DEF DiskTypeOK, HandleTypeOK, CommandTypeOK, AppTypeOK, portVars, botVars, appVars
  <2>3. QED
    BY <2>1, <2>2
    DEF DiskInv, Turns, HandleKnown, LoopKnown, TransferKnown, OwnCommand, DataKnown, UnitsKnown,
        Counted, ErrorRecorded, Sound, portVars, botVars, appVars
<1>3. CASE TimeLimit
  <2>1. /\ UNCHANGED <<portVars, mscState, maxLun, lun, unit, late, botVars, app, handle, result,
                       good, clean>>
        /\ overdue' = TRUE
    BY <1>3 DEF TimeLimit, handleVars
  <2>2. DiskTypeOK'
    BY <1>1, <2>1 DEF DiskTypeOK, HandleTypeOK, CommandTypeOK, AppTypeOK, portVars, botVars
  <2>3. QED
    BY <2>1, <2>2
    DEF DiskInv, Turns, HandleKnown, LoopKnown, TransferKnown, OwnCommand, DataKnown, UnitsKnown,
        Counted, ErrorRecorded, Sound, portVars, botVars
<1>4. CASE DeviceActs
  <2>1. UNCHANGED <<portVars, mscState, maxLun, lun, unit, late, appVars, clean, busy, cmd>>
    BY <1>4 DEF DeviceActs, Bot!Move, Bot!Answer
  <2>2. /\ busy /\ moved' \in 0..1 /\ answer' \in {"none", "passed", "failed", "phase"}
        /\ answer' = "passed" => moved' = cmd.len
    <3>1. CASE Bot!Move
      BY <1>1, <3>1 DEF Bot!Move, DiskTypeOK, CommandTypeOK, Commands
    <3>2. CASE Bot!Answer
      BY <1>1, <3>2 DEF Bot!Answer, DiskTypeOK, CommandTypeOK
    <3>3. QED
      BY <1>4, <3>1, <3>2 DEF DeviceActs
  <2>3. DiskTypeOK'
    BY <1>1, <2>1, <2>2 DEF DiskTypeOK, HandleTypeOK, CommandTypeOK, AppTypeOK, portVars, appVars
  <2>4. OwnCommand' /\ DataKnown'
    BY <2>1, <2>2 DEF DiskInv, OwnCommand, DataKnown, Sound, portVars
  <2>5. QED
    BY <2>1, <2>3, <2>4
    DEF DiskInv, Turns, HandleKnown, LoopKnown, TransferKnown, UnitsKnown, Counted, ErrorRecorded,
        Sound, portVars, appVars
<1>5. CASE Plugging \/ LoseSession \/ Unmount
  <2>1. /\ UNCHANGED <<handleVars, appVars, clean>>
        /\ connected' \in BOOLEAN /\ session' \in {"none", "opened", "class", "lost", "closing"}
        /\ mounted' = mounted \/ mounted' = FALSE
        /\ HasHandle' <=> HasHandle
        /\ session' \in {"opened", "class"} => session' = session
    BY <1>1, <1>5
    DEF Plugging, LoseSession, Unmount, Session!Connect, Session!Disconnect, Session!Lose,
        Session!Unmount, DiskTypeOK, HandleTypeOK
  <2>2. DiskTypeOK'
    <3>1. mounted' \in BOOLEAN
      BY <1>1, <2>1 DEF DiskTypeOK, HandleTypeOK
    <3>2. HandleTypeOK'
      BY <1>1, <2>1, <3>1 DEF DiskTypeOK, HandleTypeOK, handleVars
    <3>3. CommandTypeOK' /\ AppTypeOK'
      BY <1>1, <2>1 DEF DiskTypeOK, CommandTypeOK, AppTypeOK, handleVars, botVars, appVars
    <3> QED BY <3>2, <3>3 DEF DiskTypeOK
  <2>3. QED
    BY <2>1, <2>2
    DEF DiskInv, Turns, HandleKnown, LoopKnown, TransferKnown, OwnCommand, DataKnown, UnitsKnown,
        Counted, ErrorRecorded, Sound, handleVars, botVars, appVars
<1>6. CASE EnterClass
  <2>1. /\ session = "opened" /\ session' = "class"
        /\ UNCHANGED <<connected, mounted, mscState, lun, unit, late, botVars, appVars, clean>>
        /\ maxLun' \in 1..(MaxSupportedLun + 1)
    BY <1>6, LunFacts DEF EnterClass, Session!Enter
  <2>2. maxLun' \in 0..(MaxSupportedLun + 1) /\ maxLun' >= 1
    BY <2>1, LunFacts
  <2>3. DiskTypeOK'
    BY <1>1, <2>1, <2>2 DEF DiskTypeOK, HandleTypeOK, CommandTypeOK, AppTypeOK, botVars, appVars
  <2>4. Sound' => Sound /\ mscState = "MSC_INIT"
    BY <2>1, LunFacts DEF DiskInv, Counted, Sound
  <2>5. Sound' => ~busy'
    <3>1. cmd.lun \in Nat /\ maxLun = 0
      BY <1>1, <2>1, LunFacts DEF DiskInv, Counted, DiskTypeOK, CommandTypeOK, Commands
    <3>2. QED
      BY <2>1, <2>4, <3>1 DEF DiskInv, Counted, DataKnown, botVars
  <2>6. QED
    BY <2>1, <2>2, <2>3, <2>4, <2>5
    DEF DiskInv, Turns, HandleKnown, LoopKnown, TransferKnown, OwnCommand, DataKnown, UnitsKnown,
        Counted, ErrorRecorded, botVars, appVars
<1>7. ASSUME NewHandle
      PROVE  /\ mscState' = "MSC_INIT" /\ lun' \in 0..(MaxSupportedLun + 1) /\ maxLun' = 0
             /\ maxLun' \in 0..(MaxSupportedLun + 1) /\ unit' \in [Luns -> Unit]
             /\ late' \in BOOLEAN /\ CommandTypeOK' /\ ~busy'
             /\ \A l \in Luns : unit'[l].error = "MSC_OK" => ~(l < lun')
  <2>1. busy' = FALSE /\ late' = FALSE /\ lun' = 0 /\ maxLun' = 0 /\ mscState' = "MSC_INIT"
    BY <1>7 DEF NewHandle
  <2>2. late' \in BOOLEAN /\ busy' \in BOOLEAN
    BY <2>1
  <2>3. CommandTypeOK'
    BY <1>7, <2>2, NewFacts DEF NewHandle, CommandTypeOK
  <2>4. unit' \in [Luns -> Unit]
    BY <1>7, NewFacts DEF NewHandle
  <2>5. lun' \in 0..(MaxSupportedLun + 1) /\ maxLun' \in 0..(MaxSupportedLun + 1)
        /\ \A l \in Luns : ~(l < lun')
    BY <2>1, LunFacts DEF Luns
  <2>6. QED
    BY <2>1, <2>2, <2>3, <2>4, <2>5
<1>8. ASSUME NEW fate \in {"leaked", "freed"}, Leaves(fate),
             session' \in {"none", "opened", "closing"},
             connected' \in BOOLEAN, mounted' \in BOOLEAN, clean' \in BOOLEAN,
             (HasHandle /\ clean)' => app = "idle" /\ ~mounted'
      PROVE  DiskInv'
  <2>1. /\ NewHandle /\ handle' = IF handle = "current" THEN fate ELSE handle
        /\ UNCHANGED <<app, overdue, result, good>>
    BY <1>8 DEF Leaves
  <2>2. handle' \in {"leaked", "freed"}
    BY <1>1, <2>1 DEF DiskTypeOK, AppTypeOK
  <2>3. DiskTypeOK'
    BY <1>1, <1>7, <1>8, <2>1, <2>2 DEF DiskTypeOK, HandleTypeOK, AppTypeOK
  <2>4. QED
    BY <1>7, <1>8, <2>1, <2>2, <2>3, LunFacts
    DEF DiskInv, Turns, HandleKnown, LoopKnown, TransferKnown, OwnCommand, DataKnown, UnitsKnown,
        Counted, ErrorRecorded, Sound
<1>9. CASE OpenSession
  <2>1. /\ Leaves("leaked") /\ session' = "opened" /\ UNCHANGED <<connected, mounted>>
        /\ clean' = (app = "idle" /\ ~mounted)
    BY <1>9 DEF OpenSession, Session!Open
  <2>2. connected' \in BOOLEAN /\ mounted' \in BOOLEAN /\ clean' \in BOOLEAN
    BY <1>1, <2>1 DEF DiskTypeOK, HandleTypeOK
  <2>3. QED
    BY <1>8, <2>1, <2>2
<1>10. CASE ForgetSession \/ Teardown
  <2>1. /\ Leaves("leaked") \/ Leaves("freed")
        /\ session' \in {"none", "closing"} /\ UNCHANGED <<connected, mounted, clean>>
    BY <1>10 DEF ForgetSession, Teardown, Session!Forget, Session!Close
  <2>2. ~HasHandle' /\ connected' \in BOOLEAN /\ mounted' \in BOOLEAN /\ clean' \in BOOLEAN
    BY <1>1, <2>1 DEF DiskTypeOK, HandleTypeOK, AppTypeOK, HasHandle
  <2>3. QED
    BY <1>8, <2>1, <2>2
<1>11. QED
  BY <1>2, <1>3, <1>4, <1>5, <1>6, <1>9, <1>10 DEF Environment

----------------------------------------------------------------------------
LEMMA StepInv == DiskInv /\ [DiskNext]_diskVars => DiskInv'
<1> SUFFICES ASSUME DiskInv, [DiskNext]_diskVars PROVE DiskInv'
  OBVIOUS
<1>1. CASE ClassProcess
  BY <1>1, ClassInv
<1>2. CASE Application
  BY <1>2, PollInv, BeginInv, RefusedInv DEF Application
<1>3. CASE Environment
  BY <1>3, EnvironmentInv
<1>4. CASE UNCHANGED diskVars
  BY <1>4
  DEF DiskInv, DiskTypeOK, HandleTypeOK, CommandTypeOK, AppTypeOK, Turns, HandleKnown, LoopKnown,
      TransferKnown, OwnCommand, DataKnown, UnitsKnown, Counted, ErrorRecorded, Sound, diskVars,
      portVars, handleVars, botVars, appVars
<1>5. QED
  BY <1>1, <1>2, <1>3, <1>4 DEF DiskNext

(* The inductive invariant of the class, the driver and the application.   *)
THEOREM DiskInvariant == DiskSpec => []DiskInv
  BY InitInv, StepInv, PTL DEF DiskSpec

(* usbh_msc.h, MSC_HandleTypeDef: no step leaves the states the types of   *)
(* the handle, of its units and of the driver's answers allow.  There may  *)
(* be one unit more than the handle has room for, and never two.           *)
THEOREM DiskTypeCorrect == DiskSpec => []DiskTypeOK
<1>1. DiskInv => DiskTypeOK
  BY DEF DiskInv
<1>2. QED
  BY <1>1, DiskInvariant, PTL

(* usbh_msc_scsi.c, hbot.cmd_state: in a sound session, which the          *)
(* application had let go of the last one for and whose units fit in the   *)
(* handle, no thread takes the answer to another command than its own.     *)
THEOREM DiskOwnCommand == DiskSpec => []OwnCommand
<1>1. DiskInv => OwnCommand
  BY DEF DiskInv
<1>2. QED
  BY <1>1, DiskInvariant, PTL

(* usbh_msc.c, USBH_MSC_UnitIsReady: in a sound session a unit of the      *)
(* device that is reported ready after the examination has had its         *)
(* capacity read, whatever the device says of its block size.              *)
THEOREM DiskCapacityKnown == DiskSpec => []CapacityKnown
<1>1. DiskInv => CapacityKnown
  BY DEF DiskInv, UnitsKnown, CapacityKnown
<1>2. QED
  BY <1>1, DiskInvariant, PTL

(* usbh_diskio.c, USBH_status: in a sound session a transfer answered      *)
(* RES_OK that moved no data leaves the unit marked, unless the device     *)
(* said that its block size is 0.                                          *)
THEOREM DiskErrorRecorded == DiskSpec => []ErrorRecorded
<1>1. DiskInv => ErrorRecorded
  BY DEF DiskInv
<1>2. QED
  BY <1>1, DiskInvariant, PTL

=============================================================================
