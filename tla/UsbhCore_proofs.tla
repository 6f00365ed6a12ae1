--------------------------- MODULE UsbhCore_proofs ---------------------------
(***************************************************************************)
(* Proofs about the host state machine, for every length of the message    *)
(* queue, every bound of the retries and every device.  Whatever the       *)
(* application does: no wakeup of the USB thread is lost, the outstanding  *)
(* control request is the one of the step that waits for it or the         *)
(* application's, the user callbacks implement HostUser, the class gets    *)
(* the sessions of MscSession, no pipe of the pool is in use twice, and    *)
(* while no request is given up every pipe in use is one of the pool.  For *)
(* an application that ends a transfer with its session: the types, and    *)
(* that the enumeration is complete when a class is chosen.                *)
(***************************************************************************)
EXTENDS UsbhCore, TLAPS

USE DEF HostStates, EnumStates, DescriptorSteps, StringSteps

----------------------------------------------------------------------------
(* The message queue.                                                      *)

LEMMA QueueBound ==
  ASSUME NEW n \in Nat
  PROVE  Capped(n) \in 0..QLen /\ (n > 0 => Capped(n) > 0)
BY CoreAssumption DEF Capped

LEMMA TakeQueue ==
  ASSUME events \in 0..QLen, NEW n \in Nat, Take(n)
  PROVE  pc = "wait" /\ events' \in 0..QLen /\ (n > 0 => events' > 0)
<1>1. events - 1 + n \in Nat /\ (n > 0 => events - 1 + n > 0)
  BY CoreAssumption DEF Take
<1> QED BY <1>1, QueueBound DEF Take

LEMMA NotifyQueue ==
  ASSUME events \in 0..QLen, Notify
  PROVE  events' \in 0..QLen /\ events' > 0
<1>1. events + 1 \in Nat /\ events + 1 > 0
  BY CoreAssumption
<1> QED BY <1>1, QueueBound DEF Notify

----------------------------------------------------------------------------
(* Wakeups: every handler leaves the thread asleep on purpose, leaves a    *)
(* message, or leaves nothing to do.                                       *)
WakeInv == events \in 0..QLen /\ NoLostWakeup

LEMMA AnsweredWakes ==
  ASSUME events \in 0..QLen, NEW state, NEW status, NEW more \in 0..1,
         CallAt(state, status, more)
  PROVE  events' \in 0..QLen /\ events' > 0
<1>1. PICK n \in 1..2 : Take(n + more)
  BY DEF CallAt
<1>2. n + more \in Nat /\ n + more > 0
  OBVIOUS
<1> QED BY <1>1, <1>2, TakeQueue

LEMMA ThreadWakes == WakeInv /\ Thread => WakeInv'
<1> SUFFICES ASSUME WakeInv, Thread PROVE WakeInv'
  OBVIOUS
<1>0. events \in 0..QLen
  BY DEF WakeInv
<1>1. CASE ResetPort \/ AttachedOpen \/ Restart
  BY <1>0, <1>1, NotifyQueue DEF ResetPort, AttachedOpen, Restart, WakeInv, NoLostWakeup
<1>2. CASE IdleConnected \/ AttachedUser \/ Disconnected
  BY <1>0, <1>2, TakeQueue DEF IdleConnected, AttachedUser, Disconnected, WakeInv, NoLostWakeup
<1>3. CASE \E state : At(state) /\ Take(1)
  BY <1>0, <1>3, TakeQueue DEF WakeInv, NoLostWakeup
<1>4. CASE \E state, status : \E more \in 0..1 : CallAt(state, status, more)
  BY <1>0, <1>4, AnsweredWakes DEF WakeInv, NoLostWakeup
<1>5. CASE IdleEmpty \/ ClassIdle \/ Aborted
  <2>1. events' \in 0..QLen
    BY <1>0, <1>5, TakeQueue DEF IdleEmpty, ClassIdle, Aborted
  <2>2. /\ ~isDisconnected' /\ gState' = gState /\ isConnected' = isConnected
        /\ \/ gState = "HOST_IDLE" /\ ~isConnected
           \/ gState = "HOST_CLASS" /\ mscState' # "MSC_INIT"
           \/ gState = "HOST_ABORT_STATE"
    BY <1>5 DEF IdleEmpty, ClassIdle, Aborted, At, Pending, Apart, portVars, mscVars
  <2> QED BY <2>1, <2>2 DEF WakeInv, NoLostWakeup, Polling
<1>6. ASSUME Enumeration \/ SetConfiguration \/ SetWakeupFeature \/ ClassRequest \/ ClassInit
      PROVE  \/ \E state : At(state) /\ Take(1)
             \/ \E state, status : \E more \in 0..1 : CallAt(state, status, more)
  BY <1>6
  DEF Enumeration, EnumBusy, EnumGiveUp, EnumDescriptor, EnumDescriptorRefused, EnumSetAddress,
      EnumSetAddressRefused, EnumString, EnumLastString, StringDone, EnumCall, SetConfiguration,
      SetWakeupFeature, Configure, ClassRequest, ClassInit
<1>7. ASSUME WaitForAttachment \/ Input \/ CheckClass \/ ClassActive
      PROVE  \E state : At(state) /\ Take(1)
  BY <1>7 DEF WaitForAttachment, Input, CheckClass, ClassActive
<1> QED BY <1>1, <1>2, <1>3, <1>4, <1>5, <1>6, <1>7 DEF Thread

LEMMA ApplicationWakes == WakeInv /\ Application => WakeInv'
<1> SUFFICES ASSUME WakeInv, Application PROVE WakeInv'
  OBVIOUS
<1>0. events \in 0..QLen
  BY DEF WakeInv
<1>1. CASE AppTransfers
  BY <1>0, <1>1, NotifyQueue DEF AppTransfers, WakeInv, NoLostWakeup
<1>2. CASE AppClearsStall
  <2>1. PICK n \in 1..2 : events' = Capped(events + n + 1)
    BY <1>2 DEF AppClearsStall
  <2>2. events + n + 1 \in Nat /\ events + n + 1 > 0
    BY <1>0, CoreAssumption
  <2> QED BY <2>1, <2>2, QueueBound DEF WakeInv, NoLostWakeup
<1>3. CASE AppBegins \/ AppEnds
  <2>1. UNCHANGED <<pc, events, isDisconnected, isConnected, gState>>
        /\ (mscState' = "MSC_INIT" => mscState = "MSC_INIT")
    BY <1>3 DEF AppBegins, AppEnds, portVars
  <2> QED BY <2>1 DEF WakeInv, NoLostWakeup, Polling
<1> QED BY <1>1, <1>2, <1>3 DEF Application

LEMMA InterruptWakes == WakeInv /\ Interrupt => WakeInv'
<1> SUFFICES ASSUME WakeInv, Interrupt PROVE WakeInv'
  OBVIOUS
<1>1. CASE PortDisabledIrq
  <2>1. UNCHANGED <<pc, events, isDisconnected, isConnected, gState, mscState>>
    BY <1>1 DEF PortDisabledIrq, Untouched, mscVars
  <2> QED BY <2>1 DEF WakeInv, NoLostWakeup, Polling
<1>2. CASE Notify
  BY <1>2, NotifyQueue DEF WakeInv, NoLostWakeup
<1> QED
  BY <1>1, <1>2
  DEF Interrupt, ConnectIrq, DisconnectIrq, PortEnabledIrq, DeviceAcks, NotifyURBChange

(* The USB thread never sleeps on an empty queue while a disconnection, a  *)
(* new device or a polling state waits for it, however short the queue is, *)
(* and whatever an application does that outlives its session.             *)
THEOREM CoreNoLostWakeup == CoreSpec => []NoLostWakeup
<1>1. CoreInit => WakeInv
  BY CoreAssumption DEF CoreInit, WakeInv, NoLostWakeup, Polling
<1>2. WakeInv /\ [CoreNext]_coreVars => WakeInv'
  <2>1. WakeInv /\ CoreNext => WakeInv'
    BY ThreadWakes, ApplicationWakes, InterruptWakes DEF CoreNext
  <2>2. WakeInv /\ UNCHANGED coreVars => WakeInv'
    BY DEF coreVars, portVars, mscVars, WakeInv, NoLostWakeup, Polling
  <2> QED BY <2>1, <2>2
<1>3. WakeInv => NoLostWakeup
  BY DEF WakeInv
<1> QED BY <1>1, <1>2, <1>3, PTL DEF CoreSpec

----------------------------------------------------------------------------
(* What the user has heard.                                                *)

(* From the announcement of a device until its class is active the user    *)
(* has heard of nothing else.                                              *)
Announced ==
  \/ gState \in HostStates \ {"HOST_IDLE", "HOST_DEV_WAIT_FOR_ATTACHMENT",
                              "HOST_DEV_ATTACHED", "HOST_ABORT_STATE", "HOST_CLASS"}
  \/ gState = "HOST_CLASS" /\ mscState = "MSC_INIT"
UserKnows == Announced => appliState = "START"

(* Where the thread is between two callbacks, nobody else calls one.       *)
UserInv ==
  /\ UserKnows
  /\ pc = "attach"   => appliState = "START"
  /\ pc = "teardown" => gState = "HOST_IDLE" /\ mscState = "none"

(* The steps that call the user.                                           *)
Callback == AttachedUser \/ ClassActive \/ Restart

LEMMA CallbackInforms ==
  UserInv /\ Callback => UserInv' /\ User!Next
<1> SUFFICES ASSUME UserInv, Callback PROVE UserInv' /\ User!Next
  OBVIOUS
<1>1. CASE AttachedUser
  BY <1>1 DEF AttachedUser, UserInv, UserKnows, User!Next, User!Connection
<1>2. CASE ClassActive
  <2>1. gState = "HOST_CLASS" /\ mscState = "MSC_INIT" /\ pc = "wait"
    BY <1>2 DEF ClassActive, At, Take
  <2>2. /\ gState' = "HOST_CLASS" /\ mscState' = "MSC_IDLE" /\ pc' = "wait"
        /\ appliState' = "READY" /\ mounted' \in {mounted, TRUE}
    BY <1>2, <2>1 DEF ClassActive
  <2>3. appliState = "START"
    BY <2>1 DEF UserInv, UserKnows, Announced
  <2> QED BY <2>2, <2>3 DEF UserInv, UserKnows, Announced, User!Next, User!ClassActive
<1>3. CASE Restart
  BY <1>3 DEF Restart, mscVars, UserInv, UserKnows, Announced, User!Next, User!Disconnection
<1> QED BY <1>1, <1>2, <1>3 DEF Callback

(* The other steps tell the user nothing, and there is nothing to tell:    *)
(* what is announced was announced before.                                 *)
LEMMA SilentThread == UserInv /\ Thread /\ ~Callback => UserInv' /\ UNCHANGED userVars
<1> SUFFICES ASSUME UserInv, Thread, ~Callback PROVE UserInv' /\ UNCHANGED userVars
  OBVIOUS
<1>1. CASE AttachedOpen
  BY <1>1 DEF AttachedOpen, userVars, UserInv, UserKnows
<1>2. CASE Disconnected
  BY <1>2 DEF Disconnected, userVars, UserInv, UserKnows, Announced
<1>3. CASE IdleEmpty \/ IdleConnected \/ ResetPort \/ WaitForAttachment \/ ClassIdle \/ Aborted
  <2>1. /\ UNCHANGED userVars /\ pc' \in {"wait", "settle"}
        /\ \/ gState' \in {"HOST_IDLE", "HOST_DEV_WAIT_FOR_ATTACHMENT", "HOST_DEV_ATTACHED",
                          "HOST_ABORT_STATE"}
           \/ gState' = "HOST_CLASS" /\ mscState' # "MSC_INIT"
           \/ UNCHANGED <<gState, mscState>>
    BY <1>3
    DEF IdleEmpty, IdleConnected, ResetPort, WaitForAttachment, ClassIdle, Aborted, Pending,
        Apart, At, Take, mscVars
  <2> QED BY <2>1 DEF userVars, UserInv, UserKnows, Announced
<1>4. ASSUME Enumeration \/ Input \/ SetConfiguration \/ SetWakeupFeature \/ CheckClass
                \/ ClassRequest \/ ClassInit
      PROVE  Announced /\ UNCHANGED userVars /\ pc' = "wait"
  <2>1. \/ \E state \in {"HOST_ENUMERATION", "HOST_INPUT", "HOST_SET_CONFIGURATION",
                         "HOST_SET_WAKEUP_FEATURE", "HOST_CHECK_CLASS", "HOST_CLASS_REQUEST"} :
               gState = state
        \/ gState = "HOST_CLASS" /\ mscState = "MSC_INIT"
    BY <1>4
    DEF Enumeration, EnumBusy, EnumGiveUp, EnumDescriptor, EnumDescriptorRefused, EnumSetAddress,
        EnumSetAddressRefused, EnumString, EnumLastString, StringDone, EnumCall, Input,
        SetConfiguration, SetWakeupFeature, Configure, CheckClass, ClassRequest, ClassInit, CallAt,
        At
  <2>2. pc = "wait"
    BY <1>4
    DEF Enumeration, EnumBusy, EnumGiveUp, EnumDescriptor, EnumDescriptorRefused, EnumSetAddress,
        EnumSetAddressRefused, EnumString, EnumLastString, StringDone, EnumCall, Input,
        SetConfiguration, SetWakeupFeature, Configure, CheckClass, ClassRequest, ClassInit, CallAt,
        Take
  <2>3. UNCHANGED <<pc, userVars>>
    BY <1>4
    DEF Enumeration, EnumBusy, EnumGiveUp, EnumDescriptor, EnumDescriptorRefused, EnumSetAddress,
        EnumSetAddressRefused, EnumString, EnumLastString, Input, SetConfiguration,
        SetWakeupFeature, Configure, CheckClass, ClassRequest, ClassInit, Pending, GivenUp, Apart
  <2> QED BY <2>1, <2>2, <2>3 DEF Announced
<1>5. CASE Announced /\ UNCHANGED userVars /\ pc' = "wait"
  BY <1>5 DEF userVars, UserInv, UserKnows
<1> QED BY <1>1, <1>2, <1>3, <1>4, <1>5 DEF Thread, Callback

LEMMA SilentOthers ==
  UserInv /\ (Application \/ Interrupt) => UserInv' /\ UNCHANGED userVars
<1> SUFFICES ASSUME UserInv, Application \/ Interrupt PROVE UserInv' /\ UNCHANGED userVars
  OBVIOUS
<1>1. UNCHANGED <<pc, userVars>>
  BY DEF Application, AppBegins, AppTransfers, AppClearsStall, AppEnds, Pending, GivenUp, Apart,
         Interrupt, ConnectIrq, DisconnectIrq, PortEnabledIrq, PortDisabledIrq, DeviceAcks,
         NotifyURBChange, Untouched
<1>2. \/ UNCHANGED <<gState, mscState>>
      \/ gState' = "HOST_IDLE" /\ UNCHANGED mscState
      \/ UNCHANGED gState /\ mscState' = "MSC_IDLE" /\ mscState # "none"
      \/ gState = "HOST_CLASS" /\ gState' = "HOST_CLASS" /\ mscState' = "MSC_READ"
  BY DEF Application, AppBegins, AppTransfers, AppClearsStall, AppEnds, AppActs, ClassOpen,
         Pending, GivenUp, Apart, Interrupt, ConnectIrq, DisconnectIrq, PortEnabledIrq,
         PortDisabledIrq, DeviceAcks, NotifyURBChange, Untouched, mscVars
<1> QED BY <1>1, <1>2 DEF userVars, UserInv, UserKnows, Announced

(* The user callbacks implement HostUser, whatever an application does     *)
(* that outlives its session: a medium is ready at most once for a         *)
(* connection, after it, and nothing is mounted once a disconnection was   *)
(* announced.                                                              *)
THEOREM CoreImplementsHostUser == CoreSpec => UserSpec
<1>1. CoreInit => UserInv /\ User!Init
  BY DEF CoreInit, UserInv, UserKnows, Announced, User!Init
<1>2. UserInv /\ [CoreNext]_coreVars => UserInv' /\ [User!Next]_User!userVars
  <2>1. CoreNext => Callback \/ (Thread /\ ~Callback) \/ Application \/ Interrupt
    BY DEF CoreNext
  <2>2. UserInv /\ CoreNext => UserInv' /\ [User!Next]_User!userVars
    BY <2>1, CallbackInforms, SilentThread, SilentOthers DEF userVars, User!userVars
  <2>3. UserInv /\ UNCHANGED coreVars => UserInv' /\ UNCHANGED User!userVars
    BY DEF coreVars, mscVars, userVars, User!userVars, UserInv, UserKnows, Announced
  <2> QED BY <2>2, <2>3
<1> QED BY <1>1, <1>2, PTL DEF CoreSpec, UserSpec, User!Spec

----------------------------------------------------------------------------
(* Sessions, for every application, if no device is plugged in before the  *)
(* unplugging of the last one was handled.                                 *)

(* A device that is gone is either still to be forgotten, or nothing is    *)
(* left of it.                                                             *)
Forgotten == gState = "HOST_IDLE" /\ mscState = "none" /\ pc \in {"wait", "teardown"}

SessionInv ==
  /\ isConnected \in BOOLEAN /\ (isConnected <=> dev # "none")
  /\ isDisconnected => ~isConnected
  /\ ~isConnected /\ ~isDisconnected => Forgotten
  /\ gState \in {"HOST_CLASS_REQUEST", "HOST_CLASS"} => ClassOpen
  /\ pc = "teardown" => Forgotten

(* A step of the state machine is for a device that is there.              *)
LEMMA AtConnected ==
  ASSUME SessionInv, NEW state \in HostStates \ {"HOST_IDLE"}, At(state)
  PROVE  isConnected
BY DEF SessionInv, Forgotten, At

(* A step that leaves the device and the handle alone and, if it moves the *)
(* state machine, does not enter the class.                                *)
LEMMA SessionKept ==
  ASSUME SessionInv,
         pc # "teardown", pc' # "teardown",
         gState' \in HostStates \ {"HOST_CLASS_REQUEST", "HOST_CLASS"} \/ UNCHANGED gState,
         ClassOpen' <=> ClassOpen, mscState = "none" => mscState' = "none",
         UNCHANGED <<isConnected, isDisconnected, mounted>>, dev' = "none" <=> dev = "none",
         ~isConnected /\ ~isDisconnected => gState' = "HOST_IDLE" /\ pc' = "wait"
  PROVE  SessionInv' /\ [Session!Next]_Session!sessionVars
<1>1. SessionInv'
  BY DEF SessionInv, Forgotten
<1>2. SessionNow' = SessionNow \/ (SessionNow \in {"opened", "class"} /\ SessionNow' = "lost")
  BY DEF SessionNow
<1> QED BY <1>1, <1>2 DEF Session!Next, Session!Lose, Session!sessionVars

(* The steps of the state machine that work for the session the host has.  *)
AtWork ==
  \/ WaitForAttachment \/ AttachedUser \/ Enumeration \/ Input \/ SetConfiguration
  \/ SetWakeupFeature \/ ClassInit \/ ClassIdle \/ Aborted
  \/ (ClassRequest /\ gState' # "HOST_CLASS")

LEMMA AtWorkKeeps ==
  ASSUME SessionInv, AtWork
  PROVE  SessionInv' /\ [Session!Next]_Session!sessionVars
<1>1. PICK state \in HostStates \ {"HOST_IDLE"} : At(state)
  BY DEF AtWork, WaitForAttachment, AttachedUser, Enumeration, EnumBusy, EnumGiveUp,
         EnumDescriptor, EnumDescriptorRefused, EnumSetAddress, EnumSetAddressRefused,
         EnumString, EnumLastString, StringDone, EnumCall, Input, SetConfiguration,
         SetWakeupFeature, Configure, ClassInit, ClassIdle, Aborted, ClassRequest, CallAt
<1>2. pc = "wait"
  BY DEF AtWork, WaitForAttachment, AttachedUser, Enumeration, EnumBusy, EnumGiveUp,
         EnumDescriptor, EnumDescriptorRefused, EnumSetAddress, EnumSetAddressRefused,
         EnumString, EnumLastString, StringDone, EnumCall, Input, SetConfiguration,
         SetWakeupFeature, Configure, ClassInit, ClassIdle, Aborted, ClassRequest, CallAt, Take
<1>3. UNCHANGED <<portVars, mscState, mounted>> /\ pc' \in {"wait", "attach"}
  BY <1>2
  DEF AtWork, WaitForAttachment, AttachedUser, Enumeration, EnumBusy, EnumGiveUp,
      EnumDescriptor, EnumDescriptorRefused, EnumSetAddress, EnumSetAddressRefused,
      EnumString, EnumLastString, Input, SetConfiguration, SetWakeupFeature, Configure,
      ClassInit, ClassIdle, Aborted, ClassRequest, Pending, GivenUp, Apart, mscVars, userVars
<1>4. gState' \in HostStates \ {"HOST_CLASS_REQUEST", "HOST_CLASS"} \/ UNCHANGED gState
  BY DEF AtWork, WaitForAttachment, AttachedUser, Enumeration, EnumBusy, EnumGiveUp, EnumNext,
         EnumDescriptor, EnumDescriptorRefused, EnumSetAddress, EnumSetAddressRefused,
         EnumString, EnumLastString, Input, SetConfiguration, SetWakeupFeature, Configure,
         ClassInit, ClassIdle, Aborted, ClassRequest, Pending, GivenUp
<1>5. isConnected
  BY <1>1, AtConnected
<1> QED BY <1>2, <1>3, <1>4, <1>5, SessionKept DEF portVars, ClassOpen

LEMMA ThreadKeeps ==
  ASSUME SessionInv, Thread
  PROVE  SessionInv' /\ [Session!Next]_Session!sessionVars
<1>1. CASE IdleEmpty \/ IdleConnected
  <2>1. /\ pc = "wait" /\ UNCHANGED <<portVars, mscState, mounted>> /\ ~isDisconnected
        /\ \/ isConnected /\ gState' = "HOST_DEV_WAIT_FOR_ATTACHMENT" /\ pc' = "settle"
           \/ UNCHANGED <<gState, pc>>
    BY <1>1 DEF IdleEmpty, IdleConnected, At, Take, Pending, Apart, mscVars, userVars
  <2> QED BY <2>1, SessionKept DEF portVars, ClassOpen, SessionInv, Forgotten
<1>2. CASE ResetPort \/ AttachedOpen
  <2>1. /\ pc \in {"settle", "attach"} /\ pc' = "wait"
        /\ UNCHANGED <<isConnected, isDisconnected, mscState, mounted>>
        /\ dev' = "none" <=> dev = "none"
        /\ gState' = "HOST_ENUMERATION" \/ UNCHANGED gState
    BY <1>2 DEF ResetPort, AttachedOpen, portVars, mscVars, userVars
  <2>2. isConnected \/ isDisconnected
    BY <2>1 DEF SessionInv, Forgotten
  <2> QED BY <2>1, <2>2, SessionKept DEF ClassOpen
<1>3. CASE AtWork
  BY <1>3, AtWorkKeeps
<1>4. CASE CheckClass
  <2>1. /\ isConnected /\ pc = "wait" /\ SessionNow = IF ClassOpen THEN "lost" ELSE "none"
        /\ UNCHANGED <<portVars, pc, mounted>>
    BY <1>4, AtConnected DEF CheckClass, At, Take, SessionNow, userVars
  <2>2. CASE gState' = "HOST_ABORT_STATE" /\ (ClassOpen' => ClassOpen)
    <3>1. SessionInv'
      BY <2>1, <2>2 DEF SessionInv, portVars
    <3>2. SessionNow' = SessionNow \/ (SessionNow = "lost" /\ SessionNow' = "none")
      BY <2>1, <2>2 DEF SessionNow
    <3> QED BY <2>1, <3>1, <3>2 DEF portVars, Session!Next, Session!Forget, Session!sessionVars
  <2>3. CASE gState' = "HOST_CLASS_REQUEST" /\ mscState' = "MSC_INIT"
    <3>1. SessionInv' /\ SessionNow' = "opened"
      BY <2>1, <2>3 DEF SessionInv, portVars, SessionNow, ClassOpen
    <3> QED BY <2>1, <3>1 DEF portVars, Session!Next, Session!Open
  <2> QED BY <1>4, <2>2, <2>3 DEF CheckClass, ClassOpen
<1>5. CASE ClassRequest /\ gState' = "HOST_CLASS"
  <2>1. /\ isConnected /\ pc = "wait" /\ gState = "HOST_CLASS_REQUEST"
        /\ UNCHANGED <<portVars, pc, mscState, mounted>>
    BY <1>5, AtConnected
    DEF ClassRequest, CallAt, At, Take, Pending, Apart, mscVars, userVars
  <2>2. ClassOpen /\ SessionInv'
    BY <1>5, <2>1 DEF SessionInv, portVars, ClassOpen
  <2>3. SessionNow = "opened" /\ SessionNow' = "class"
    BY <1>5, <2>1, <2>2 DEF SessionNow, ClassOpen
  <2> QED BY <2>1, <2>2, <2>3 DEF portVars, Session!Next, Session!Enter
<1>6. CASE ClassActive
  <2>1. /\ pc = "wait" /\ gState = "HOST_CLASS" /\ ClassOpen /\ ClassOpen'
        /\ UNCHANGED <<portVars, pc, gState>> /\ mounted' \in {mounted, TRUE}
    BY <1>6 DEF ClassActive, At, Take, ClassOpen
  <2>2. isConnected
    BY <1>6, AtConnected DEF ClassActive
  <2>3. SessionInv' /\ SessionNow = "class" /\ SessionNow' = "class"
    BY <2>1, <2>2 DEF SessionInv, portVars, SessionNow
  <2> QED BY <2>1, <2>2, <2>3 DEF portVars, Session!Next, Session!Activate
<1>7. CASE Disconnected
  <2>1. /\ ~isConnected /\ pc = "wait" /\ pc' = "teardown" /\ ~isDisconnected'
        /\ gState' = "HOST_IDLE" /\ mscState' = "none"
        /\ UNCHANGED <<dev, isConnected, mounted>>
    BY <1>7 DEF Disconnected, Take, SessionInv, userVars
  <2>2. SessionInv' /\ SessionNow # "closing" /\ SessionNow' = "closing"
    BY <2>1 DEF SessionInv, Forgotten, SessionNow
  <2> QED BY <2>1, <2>2 DEF Session!Next, Session!Close
<1>8. CASE Restart
  <2>1. /\ pc = "teardown" /\ pc' = "wait" /\ mounted' = FALSE
        /\ UNCHANGED <<portVars, gState, mscState>>
    BY <1>8 DEF Restart, mscVars
  <2>2. SessionInv' /\ SessionNow = "closing" /\ SessionNow' = "none"
    BY <2>1 DEF SessionInv, Forgotten, SessionNow, ClassOpen, portVars
  <2> QED BY <2>1, <2>2 DEF portVars, Session!Next, Session!Unmount
<1> QED BY <1>1, <1>2, <1>3, <1>4, <1>5, <1>6, <1>7, <1>8 DEF Thread, AtWork

LEMMA OthersKeep ==
  ASSUME SessionInv, Application \/ Interrupt, ~QuickReplug
  PROVE  SessionInv' /\ [Session!Next]_Session!sessionVars
<1>1. CASE Application
  <2>1. /\ ClassOpen \/ UNCHANGED mscState
        /\ ClassOpen' <=> ClassOpen
        /\ UNCHANGED <<portVars, pc, mounted>>
        /\ gState' = "HOST_IDLE" \/ UNCHANGED gState
    BY <1>1
    DEF Application, AppBegins, AppTransfers, AppClearsStall, AppEnds, AppActs, ClassOpen,
        Pending, GivenUp, Apart, mscVars, userVars
  <2>2. CASE ClassOpen
    <3>1. pc # "teardown" /\ (isConnected \/ isDisconnected) /\ mscState # "none"
      BY <2>2 DEF SessionInv, Forgotten, ClassOpen
    <3> QED BY <2>1, <3>1, SessionKept DEF portVars
  <2>3. CASE ~ClassOpen
    <3>1. UNCHANGED <<gState, mscState>>
      BY <1>1, <2>1, <2>3
      DEF Application, AppBegins, AppTransfers, AppClearsStall, AppEnds, AppActs
    <3> QED BY <2>1, <3>1 DEF SessionInv, Forgotten, portVars, SessionNow, Session!sessionVars
  <2> QED BY <2>2, <2>3
<1>2. CASE ConnectIrq
  <2>1. /\ dev = "none" /\ dev' = "powered" /\ isConnected' = TRUE /\ isDisconnected' = FALSE
        /\ ~isDisconnected /\ UNCHANGED <<pc, gState, mscState, mounted>>
    BY <1>2 DEF ConnectIrq, Untouched, mscVars, userVars
  <2>2. ~isConnected /\ SessionInv' /\ SessionNow \in {"none", "closing"}
        /\ SessionNow' = SessionNow
    BY <2>1 DEF SessionInv, Forgotten, SessionNow, ClassOpen
  <2> QED BY <2>1, <2>2 DEF Session!Next, Session!Connect
<1>3. CASE DisconnectIrq
  <2>1. /\ dev # "none" /\ dev' = "none" /\ isConnected' = FALSE /\ isDisconnected' = TRUE
        /\ UNCHANGED <<pc, gState, mscState, mounted>>
    BY <1>3 DEF DisconnectIrq, Untouched, mscVars, userVars
  <2>2. isConnected /\ SessionInv' /\ SessionNow' = SessionNow
    BY <2>1 DEF SessionInv, Forgotten, SessionNow, ClassOpen
  <2> QED BY <2>1, <2>2 DEF Session!Next, Session!Disconnect
<1>4. CASE PortEnabledIrq \/ PortDisabledIrq \/ DeviceAcks \/ NotifyURBChange
  <2>1. UNCHANGED <<isConnected, isDisconnected, pc, gState, mscState, mounted>>
    BY <1>4
    DEF PortEnabledIrq, PortDisabledIrq, DeviceAcks, NotifyURBChange, Untouched, portVars,
        mscVars, userVars
  <2>2. dev' = "none" <=> dev = "none"
    <3>1. CASE DeviceAcks
      BY <3>1, Zenon DEF DeviceAcks, Reachable
    <3> QED BY <1>4, <3>1 DEF PortEnabledIrq, PortDisabledIrq, NotifyURBChange, portVars
  <2> QED BY <2>1, <2>2 DEF SessionInv, Forgotten, ClassOpen, SessionNow, Session!sessionVars
<1> QED BY <1>1, <1>2, <1>3, <1>4 DEF Interrupt

(* The host implements MscSession: the class enters HOST_CLASS once with   *)
(* each handle it allocates, no handle outlives its device, and a volume   *)
(* is unmounted before the next handle is allocated.                       *)
THEOREM CoreImplementsMscSession == ASSUME ~QuickReplug PROVE CoreSpec => SessionSpec
<1>1. CoreInit => SessionInv /\ Session!Init
  BY DEF CoreInit, SessionInv, Forgotten, Session!Init, SessionNow, ClassOpen
<1>2. SessionInv /\ [CoreNext]_coreVars => SessionInv' /\ [Session!Next]_Session!sessionVars
  <2>1. SessionInv /\ CoreNext => SessionInv' /\ [Session!Next]_Session!sessionVars
    BY ThreadKeeps, OthersKeep DEF CoreNext
  <2>2. SessionInv /\ UNCHANGED coreVars => SessionInv' /\ UNCHANGED Session!sessionVars
    BY DEF coreVars, portVars, mscVars, userVars, SessionInv, Forgotten, ClassOpen, SessionNow,
           Session!sessionVars
  <2> QED BY <2>1, <2>2
<1> QED BY <1>1, <1>2, PTL DEF CoreSpec, SessionSpec, Session!Spec

----------------------------------------------------------------------------
(* Types, for an application that ends a transfer when its session is      *)
(* over: one that goes on may send its requests in the middle of an        *)
(* enumeration, and bring a host that gave up back to HOST_IDLE with its   *)
(* counters exhausted.                                                     *)

(* Where the thread sleeps or blocks, the state machine is in the state    *)
(* the handler left it in: no interrupt moves it.                          *)
Sleeping ==
  /\ pc = "settle"   => gState = "HOST_DEV_WAIT_FOR_ATTACHMENT"
  /\ pc = "attach"   => gState = "HOST_DEV_ATTACHED"
  /\ pc = "teardown" => gState = "HOST_IDLE"

(* A counter runs past its bound only to end in HOST_ABORT_STATE.          *)
Exhausted ==
  rstCnt > MaxReset \/ enumCnt > MaxEnumRetry => gState = "HOST_ABORT_STATE"

(* The parts of CoreTypeOK that a control request, and that a step of the  *)
(* state machine, change.                                                  *)
CtlTypes ==
  /\ busy \in BOOLEAN /\ req \in Requests /\ acked \subseteq Ctl!Stages
  /\ failures \in 0..MaxErrorCount
StepTypes ==
  /\ gState \in HostStates /\ enumState \in EnumStates
  /\ rstCnt \in 0..(MaxReset + 1) /\ enumCnt \in 0..(MaxEnumRetry + 1)
  /\ timeout \in 0..(ResetTimeout + 1) /\ address \in {0, 1}
  /\ pipes \subseteq AllPipes
OtherTypes ==
  /\ dev \in {"none", "powered", "default", "addressed", "configured"}
  /\ raise \in BOOLEAN
  /\ isConnected \in BOOLEAN /\ isDisconnected \in BOOLEAN /\ portEnabled \in BOOLEAN
  /\ pc \in {"wait", "settle", "attach", "teardown"}
  /\ {ctlOut, ctlIn, mscOut, mscIn} \subseteq AllPipes \union {NoPipe}
  /\ mscState \in {"none", "failed", "MSC_INIT", "MSC_IDLE", "MSC_READ"} /\ appIO \in BOOLEAN
  /\ appliState \in {"IDLE", "START", "READY", "DISCONNECT"} /\ mounted \in BOOLEAN

(* The outstanding request is the one of the step the host is at.          *)
InStep == busy => req = Request(CurrentStep)

CoreInv == CoreTypeOK /\ InStep /\ Sleeping /\ Exhausted

LEMMA AllocPipes ==
  ASSUME NEW first, NEW second, Alloc(first, second), pipes \subseteq AllPipes
  PROVE  /\ first \in AllPipes \union {NoPipe} /\ second \in AllPipes \union {NoPipe}
         /\ pipes' \subseteq AllPipes
BY DEF Alloc, FreePipe

(* One call of USBH_CtlReq keeps the types and answers the request it was  *)
(* called for; a request that is not over is a request of this step.       *)
LEMMA CtlReqStep ==
  ASSUME CoreTypeOK, InStep, CurrentStep \in Reads \union Writes,
         NEW status, NEW n \in 1..2, CtlReq(CurrentStep, status, n)
  PROVE  /\ CtlTypes'
         /\ status \in {"BUSY", "OK", "NOT_SUPPORTED", "FAIL"}
         /\ busy' => req' = Request(CurrentStep)
         /\ status # "BUSY" => ~busy'
<1> USE DEF CtlTypes
<1>0. CtlTypes
  BY DEF CoreTypeOK
<1>1. CASE status = "BUSY" /\ Ctl!Begin /\ req' = Request(CurrentStep)
  BY <1>0, <1>1 DEF Ctl!Begin, Requests
<1>2. CASE status = "BUSY" /\ UNCHANGED ctlVars
  BY <1>0, <1>2 DEF InStep, ctlVars, CurrentStep
<1>3. CASE status = "BUSY" /\ Ctl!TryAgain
  <2>1. failures' \in 0..MaxErrorCount
    BY <1>0, <1>3, CoreAssumption DEF Ctl!TryAgain
  <2> QED BY <1>0, <1>3, <2>1 DEF Ctl!TryAgain, Ctl!End
<1>4. CASE status = "OK" /\ Ctl!Succeed
  BY <1>0, <1>4 DEF Ctl!Succeed, Ctl!End
<1>5. CASE status = "NOT_SUPPORTED" /\ Ctl!Refuse
  BY <1>0, <1>5 DEF Ctl!Refuse, Ctl!End
<1>6. CASE status = "FAIL" /\ Ctl!GiveUp
  <2>1. failures' \in 0..MaxErrorCount
    BY <1>0, <1>6, CoreAssumption DEF Ctl!GiveUp
  <2> QED BY <1>0, <1>6, <2>1 DEF Ctl!GiveUp, Ctl!End
<1> QED BY <1>1, <1>2, <1>3, <1>4, <1>5, <1>6 DEF CtlReq
LEMMA TypeParts == CoreTypeOK <=> CtlTypes /\ StepTypes /\ OtherTypes /\ events \in 0..QLen
BY DEF CoreTypeOK, CtlTypes, StepTypes, OtherTypes

(* A step after which the thread looks for its next message.               *)
LEMMA ApartStep ==
  ASSUME CoreInv, Apart, pc = "wait", events' \in 0..QLen,
         CtlTypes', StepTypes', InStep', Exhausted'
  PROVE  CoreInv'
<1>1. OtherTypes'
  BY TypeParts DEF CoreInv, Apart, OtherTypes, portVars, pipeNos, mscVars, userVars
<1>2. CoreTypeOK'
  BY <1>1 DEF CoreTypeOK, CtlTypes, StepTypes, OtherTypes
<1>3. Sleeping'
  BY DEF Apart, Sleeping
<1> QED BY <1>2, <1>3 DEF CoreInv

(* A call of USBH_CtlReq by the USB thread.                                *)
LEMMA CallStep ==
  ASSUME CoreInv,
         NEW state \in {"HOST_ENUMERATION", "HOST_SET_CONFIGURATION",
                        "HOST_SET_WAKEUP_FEATURE", "HOST_CLASS_REQUEST", "HOST_CLASS"},
         NEW status, NEW more \in 0..1, CallAt(state, status, more)
  PROVE  /\ gState = state /\ pc = "wait" /\ events' \in 0..QLen
         /\ CtlTypes'
         /\ busy' => req' = Request(CurrentStep)
         /\ status # "BUSY" => ~busy'
<1>1. PICK n \in 1..2 : CtlReq(CurrentStep, status, n) /\ Take(n + more)
  BY DEF CallAt
<1>2. gState = state /\ CurrentStep \in Reads \union Writes
  BY DEF CallAt, At, CurrentStep, Reads, Writes, CoreInv, CoreTypeOK
<1>3. n + more \in Nat /\ n + more > 0
  OBVIOUS
<1>4. events \in 0..QLen
  BY DEF CoreInv, CoreTypeOK
<1>5. pc = "wait" /\ events' \in 0..QLen
  BY <1>1, <1>3, <1>4, TakeQueue
<1> QED BY <1>1, <1>2, <1>5, CtlReqStep DEF CoreInv

(* The request is not over, or is over with nothing to do.                 *)
LEMMA PendingStep ==
  ASSUME CoreInv, Pending, pc = "wait", events' \in 0..QLen,
         CtlTypes', busy' => req' = Request(CurrentStep)
  PROVE  CoreInv'
<1>1. StepTypes'
  BY DEF CoreInv, CoreTypeOK, StepTypes, Pending, enumVars, counters
<1>2. InStep' /\ Exhausted'
  BY DEF mscVars, CoreInv, Exhausted, counters, Pending, Apart, InStep, CurrentStep, enumVars
<1> QED BY <1>1, <1>2, ApartStep DEF Pending

LEMMA GivenUpStep ==
  ASSUME CoreInv, GivenUp, pc = "wait", events' \in 0..QLen,
         CtlTypes', ~busy', gState # "HOST_ABORT_STATE"
  PROVE  CoreInv'
<1>1. StepTypes'
  BY DEF CoreInv, CoreTypeOK, StepTypes, GivenUp, FreeControlPipes, enumVars, counters
<1>2. InStep'
  BY DEF GivenUp, InStep
<1>3. Exhausted'
  BY DEF CoreInv, CoreTypeOK, Exhausted, GivenUp, enumVars, counters
<1> QED BY <1>1, <1>2, <1>3, ApartStep DEF GivenUp
----------------------------------------------------------------------------
(* One lemma for each part of the state machine.                           *)

LEMMA InitCore == CoreInit => CoreInv
<1> SUFFICES ASSUME CoreInit PROVE CoreInv
  OBVIOUS
<1>1. OtherTypes
  <2>1. 0 \in AllPipes
    BY CoreAssumption DEF AllPipes
  <2> QED BY <2>1 DEF CoreInit, OtherTypes
<1>2. StepTypes /\ Exhausted
  BY CoreAssumption DEF CoreInit, StepTypes, Exhausted
<1>3. req \in Requests
  BY DEF CoreInit, Requests, Reads
<1>4. CtlTypes
  <2>1. failures \in 0..MaxErrorCount
    BY CoreAssumption DEF CoreInit
  <2> QED BY <1>3, <2>1 DEF CoreInit, CtlTypes
<1>5. CoreTypeOK
  BY <1>1, <1>2, <1>4, TypeParts, CoreAssumption DEF CoreInit
<1> QED
  BY <1>2, <1>5
  DEF CoreInit, CoreInv, InStep, Sleeping

(* Where no request can be outstanding.                                    *)
LEMMA Quiet ==
  ASSUME CoreInv,
         gState \in {"HOST_IDLE", "HOST_DEV_WAIT_FOR_ATTACHMENT", "HOST_DEV_ATTACHED",
                    "HOST_INPUT", "HOST_CHECK_CLASS", "HOST_ABORT_STATE"}
  PROVE  ~busy
BY DEF CoreInv, CoreTypeOK, InStep, CurrentStep, Requests, Request, Reads, Writes

LEMMA IdleStep == CoreInv /\ (IdleEmpty \/ IdleConnected \/ ResetPort) => CoreInv'
<1> SUFFICES ASSUME CoreInv, IdleEmpty \/ IdleConnected \/ ResetPort PROVE CoreInv'
  OBVIOUS
<1> USE DEF CoreInv
<1>0. events \in 0..QLen
  BY DEF CoreTypeOK
<1>1. CASE IdleEmpty
  <2>1. events' \in 0..QLen
    BY <1>0, <1>1, TakeQueue DEF IdleEmpty
  <2>2. CoreTypeOK'
    BY <1>1, <2>1
    DEF IdleEmpty, Pending, Apart, portVars, enumVars, counters, ctlVars, pipeNos, mscVars,
        userVars, CoreTypeOK
  <2> QED
    BY <1>1, <2>2
    DEF IdleEmpty, At, Pending, Apart, enumVars, counters, ctlVars, InStep, CurrentStep,
        Sleeping, Exhausted
<1>2. CASE IdleConnected
  <2>1. pc = "wait" /\ events' \in 0..QLen
    BY <1>0, <1>2, TakeQueue DEF IdleConnected
  <2>2. CoreTypeOK'
    BY <1>2, <2>1
    DEF IdleConnected, portVars, enumVars, counters, ctlVars, pipeNos, mscVars, userVars, CoreTypeOK
  <2>3. ~busy'
    BY <1>2
    DEF IdleConnected, At, ctlVars, InStep, CurrentStep, CoreTypeOK, Requests, Request,
        Reads, Writes
  <2> QED
    BY <1>2, <2>2, <2>3
    DEF IdleConnected, At, enumVars, counters, InStep, Sleeping, Exhausted
<1>3. CASE ResetPort
  <2>1. events' \in 0..QLen
    BY <1>0, <1>3, NotifyQueue DEF ResetPort
  <2>2. OtherTypes' /\ CtlTypes'
    BY <1>3 DEF ResetPort, ctlVars, pipeNos, mscVars, userVars, CoreTypeOK, OtherTypes, CtlTypes
  <2>3. StepTypes'
    BY <1>3, CoreAssumption DEF ResetPort, CoreTypeOK, StepTypes
  <2>4. CoreTypeOK'
    BY <2>1, <2>2, <2>3 DEF CoreTypeOK, OtherTypes, CtlTypes, StepTypes
  <2> QED
    BY <1>3, <2>1, <2>4
    DEF ResetPort, ctlVars, userVars, InStep, CurrentStep, Sleeping, Exhausted
<1> QED BY <1>1, <1>2, <1>3

LEMMA AttachStep ==
  CoreInv /\ (WaitForAttachment \/ AttachedUser \/ AttachedOpen) => CoreInv'
<1> SUFFICES ASSUME CoreInv, WaitForAttachment \/ AttachedUser \/ AttachedOpen PROVE CoreInv'
  OBVIOUS
<1>0. events \in 0..QLen /\ CtlTypes
  BY DEF CoreInv, CoreTypeOK, CtlTypes
<1>1. CASE WaitForAttachment
  <2>1. pc = "wait" /\ events' \in 0..QLen
    BY <1>0, <1>1, TakeQueue DEF WaitForAttachment
  <2>2. ~busy
    BY <1>1, Quiet DEF WaitForAttachment, At
  <2>3. gState' \in {"HOST_IDLE", "HOST_DEV_WAIT_FOR_ATTACHMENT", "HOST_DEV_ATTACHED",
                    "HOST_ABORT_STATE"}
    BY <1>1 DEF WaitForAttachment, At
  <2>4. rstCnt' \in 0..(MaxReset + 1) /\ timeout' \in 0..(ResetTimeout + 1) /\ Exhausted'
    <3>1. /\ rstCnt \in 0..(MaxReset + 1) /\ timeout \in 0..(ResetTimeout + 1)
          /\ enumCnt \in 0..(MaxEnumRetry + 1)
      BY DEF CoreInv, CoreTypeOK
    <3>2. rstCnt <= MaxReset /\ enumCnt <= MaxEnumRetry /\ enumCnt' = enumCnt
      BY <1>1, <3>1, CoreAssumption DEF WaitForAttachment, At, CoreInv, Exhausted
    <3> QED BY <1>1, <3>1, <3>2, CoreAssumption DEF WaitForAttachment, Exhausted
  <2>5. StepTypes' /\ CtlTypes' /\ InStep'
    BY <1>0, <1>1, <2>2, <2>3, <2>4
    DEF WaitForAttachment, ctlVars, StepTypes, CtlTypes, CoreInv, CoreTypeOK, InStep
  <2> QED BY <1>1, <2>1, <2>3, <2>4, <2>5, ApartStep DEF WaitForAttachment
<1>2. CASE AttachedUser
  <2>1. pc = "wait" /\ events' \in 0..QLen
    BY <1>0, <1>2, TakeQueue DEF AttachedUser
  <2>2. CoreTypeOK' /\ ~busy'
    BY <1>2, <2>1, Quiet
    DEF AttachedUser, At, portVars, enumVars, counters, ctlVars, pipeNos, mscVars, CoreInv,
        CoreTypeOK
  <2> QED
    BY <1>2, <2>2
    DEF AttachedUser, At, enumVars, counters, CoreInv, InStep, Sleeping, Exhausted
<1>3. CASE AttachedOpen
  <2>1. events' \in 0..QLen
    BY <1>0, <1>3, NotifyQueue DEF AttachedOpen
  <2>2. /\ ctlOut' \in AllPipes \union {NoPipe} /\ ctlIn' \in AllPipes \union {NoPipe}
        /\ pipes' \subseteq AllPipes
    BY <1>3, AllocPipes DEF AttachedOpen, CoreInv, CoreTypeOK
  <2>3. CoreTypeOK'
    BY <1>3, <2>1, <2>2
    DEF mscVars, AttachedOpen, portVars, enumVars, counters, ctlVars, userVars, CoreInv, CoreTypeOK
  <2>4. ~busy'
    BY <1>3, Quiet DEF AttachedOpen, ctlVars, CoreInv, Sleeping
  <2>5. Exhausted'
    BY <1>3 DEF AttachedOpen, enumVars, counters, CoreInv, Sleeping, Exhausted
  <2> QED
    BY <1>3, <2>1, <2>3, <2>4, <2>5
    DEF AttachedOpen, CoreInv, InStep, Sleeping
<1> QED BY <1>1, <1>2, <1>3

LEMMA EnumerationStep == CoreInv /\ Enumeration => CoreInv'
<1> SUFFICES ASSUME CoreInv, Enumeration PROVE CoreInv'
  OBVIOUS
<1>0. StepTypes /\ CtlTypes /\ events \in 0..QLen
  BY DEF CoreInv, CoreTypeOK, StepTypes, CtlTypes
<1>1. CASE EnumBusy
  BY <1>1, CallStep, PendingStep DEF EnumBusy, EnumCall
<1>2. CASE EnumGiveUp
  BY <1>2, CallStep, GivenUpStep DEF EnumGiveUp, EnumCall
<1>3. ASSUME EnumDescriptor \/ EnumSetAddress \/ EnumString \/ EnumLastString
                \/ EnumDescriptorRefused \/ EnumSetAddressRefused
      PROVE  /\ gState = "HOST_ENUMERATION" /\ pc = "wait"
             /\ events' \in 0..QLen /\ CtlTypes' /\ ~busy'
  <2>1. CASE \E status \in {"OK", "NOT_SUPPORTED"}, more \in 0..1 : EnumCall(status, more)
    BY <2>1, CallStep DEF EnumCall
  <2>2. CASE At("HOST_ENUMERATION") /\ ~busy /\ Take(1) /\ UNCHANGED ctlVars
    BY <1>0, <2>2, TakeQueue DEF At, ctlVars, CtlTypes
  <2> QED
    BY <1>3, <2>1, <2>2
    DEF EnumDescriptor, EnumSetAddress, EnumString, EnumLastString, EnumDescriptorRefused,
        EnumSetAddressRefused, StringDone
<1>4. (rstCnt <= MaxReset /\ enumCnt <= MaxEnumRetry) \/ gState = "HOST_ABORT_STATE"
  BY <1>0, CoreAssumption DEF CoreInv, Exhausted, StepTypes
<1>5. CASE EnumDescriptor \/ EnumSetAddress \/ EnumString
  <2>1. Apart /\ gState' = gState /\ UNCHANGED <<counters, pipes>>
    BY <1>5 DEF EnumDescriptor, EnumSetAddress, EnumString, EnumNext
  <2>2. enumState' \in EnumStates /\ address' \in {0, 1}
    BY <1>0, <1>5 DEF EnumDescriptor, EnumSetAddress, EnumString, EnumNext, NextStep, StepTypes
  <2>3. StepTypes' /\ Exhausted' /\ InStep'
    BY <1>0, <1>3, <1>4, <1>5, <2>1, <2>2
    DEF StepTypes, counters, Exhausted, InStep, CoreInv
  <2> QED BY <1>3, <1>5, <2>1, <2>3, ApartStep
<1>6. CASE EnumLastString
  <2>1. /\ Apart /\ UNCHANGED <<enumVars, pipes>>
        /\ gState' \in {"HOST_SET_CONFIGURATION", "HOST_INPUT"}
    BY <1>6 DEF EnumLastString
  <2>2. StepTypes'
    BY <1>0, <2>1 DEF enumVars, counters, StepTypes
  <2>3. Exhausted'
    BY <1>3, <1>6, <2>1 DEF CoreInv, Exhausted, enumVars, counters
  <2>4. InStep'
    BY <1>3, <1>6 DEF InStep
  <2> QED BY <1>3, <1>6, <2>1, <2>2, <2>3, <2>4, ApartStep
<1>7. CASE EnumDescriptorRefused
  <2>1. /\ Apart /\ UNCHANGED <<rstCnt, timeout, address>>
        /\ gState' \in {"HOST_IDLE", "HOST_ABORT_STATE"}
        /\ enumState' \in EnumStates /\ pipes' \subseteq AllPipes
    BY <1>0, <1>7 DEF EnumDescriptorRefused, FreeControlPipes, StepTypes
  <2>2. enumCnt' \in 0..(MaxEnumRetry + 1) /\ Exhausted'
    BY <1>0, <1>3, <1>4, <1>7, CoreAssumption DEF EnumDescriptorRefused, StepTypes, Exhausted
  <2>3. StepTypes' /\ InStep'
    BY <1>0, <1>3, <1>7, <2>1, <2>2 DEF StepTypes, InStep
  <2> QED BY <1>3, <1>7, <2>1, <2>2, <2>3, ApartStep
<1>8. CASE EnumSetAddressRefused
  <2>1. Apart /\ gState' = "HOST_ABORT_STATE" /\ Exhausted'
    BY <1>8 DEF EnumSetAddressRefused, Exhausted
  <2>2. StepTypes'
    BY <1>0, <1>8 DEF EnumSetAddressRefused, counters, StepTypes
  <2>3. InStep'
    BY <1>3, <1>8 DEF InStep
  <2> QED BY <1>3, <1>8, <2>1, <2>2, <2>3, ApartStep
<1> QED BY <1>1, <1>2, <1>5, <1>6, <1>7, <1>8 DEF Enumeration

LEMMA ConfigureStep ==
  ASSUME CoreInv,
         NEW state \in {"HOST_SET_CONFIGURATION", "HOST_SET_WAKEUP_FEATURE"},
         NEW next \in {"HOST_SET_WAKEUP_FEATURE", "HOST_CHECK_CLASS"},
         Configure(state, next)
  PROVE  CoreInv'
<1>1. CASE \E status \in {"BUSY", "NOT_SUPPORTED"} : CallAt(state, status, 1) /\ Pending
  BY <1>1, CallStep, PendingStep
<1>2. CASE CallAt(state, "FAIL", 1) /\ GivenUp
  BY <1>2, CallStep, GivenUpStep
<1>3. CASE CallAt(state, "OK", 1) /\ gState' = next /\ Apart /\ UNCHANGED <<enumVars, pipes>>
  <2>1. /\ gState = state /\ pc = "wait" /\ events' \in 0..QLen
        /\ CtlTypes' /\ ~busy'
    BY <1>3, CallStep
  <2>2. StepTypes' /\ Exhausted'
    BY <1>3, <2>1 DEF CoreInv, CoreTypeOK, StepTypes, Exhausted, enumVars, counters
  <2>3. InStep'
    BY <2>1 DEF InStep
  <2> QED BY <1>3, <2>1, <2>2, <2>3, ApartStep
<1> QED BY <1>1, <1>2, <1>3 DEF Configure

LEMMA SetupStep == CoreInv /\ (Input \/ SetConfiguration \/ SetWakeupFeature) => CoreInv'
<1> SUFFICES ASSUME CoreInv, Input \/ SetConfiguration \/ SetWakeupFeature PROVE CoreInv'
  OBVIOUS
<1>0. StepTypes /\ CtlTypes /\ events \in 0..QLen
  BY DEF CoreInv, CoreTypeOK, StepTypes, CtlTypes
<1>1. CASE SetConfiguration \/ Configure("HOST_SET_WAKEUP_FEATURE", "HOST_CHECK_CLASS")
  BY <1>1, ConfigureStep DEF SetConfiguration
<1>2. ASSUME NEW state \in {"HOST_INPUT", "HOST_SET_WAKEUP_FEATURE"}, At(state), ~busy, Take(1),
             gState' \in {"HOST_SET_CONFIGURATION", "HOST_CHECK_CLASS"},
             Apart, UNCHANGED <<enumVars, ctlVars, pipes>>
      PROVE  CoreInv'
  <2>1. gState = state /\ pc = "wait" /\ events' \in 0..QLen
    BY <1>0, <1>2, TakeQueue DEF At
  <2>2. CtlTypes' /\ ~busy'
    BY <1>0, <1>2 DEF CtlTypes, ctlVars
  <2>3. StepTypes' /\ Exhausted'
    BY <1>0, <1>2, <2>1 DEF CoreInv, StepTypes, Exhausted, enumVars, counters
  <2>4. InStep'
    BY <2>1, <2>2 DEF InStep
  <2> QED BY <1>2, <2>1, <2>2, <2>3, <2>4, ApartStep
<1>3. CASE Input
  BY <1>2, <1>3, Quiet DEF Input, At
<1> QED BY <1>1, <1>2, <1>3 DEF SetWakeupFeature

LEMMA ClassStep ==
  CoreInv /\ (CheckClass \/ ClassRequest \/ ClassInit \/ ClassActive \/ ClassIdle) => CoreInv'
<1> SUFFICES ASSUME CoreInv,
                    CheckClass \/ ClassRequest \/ ClassInit \/ ClassActive \/ ClassIdle
             PROVE  CoreInv'
  OBVIOUS
<1>0. StepTypes /\ CtlTypes /\ OtherTypes /\ events \in 0..QLen
  BY TypeParts DEF CoreInv
<1>1. CASE CheckClass
  <2>1. gState = "HOST_CHECK_CLASS" /\ pc = "wait" /\ events' \in 0..QLen
    BY <1>0, <1>1, TakeQueue DEF CheckClass, At
  <2>2. /\ mscOut' \in AllPipes \union {NoPipe} /\ mscIn' \in AllPipes \union {NoPipe}
        /\ pipes' \subseteq AllPipes
    BY <1>0, <1>1, AllocPipes DEF CheckClass, StepTypes, OtherTypes
  <2>3. StepTypes' /\ CtlTypes' /\ Exhausted'
    BY <1>0, <1>1, <2>1, <2>2
    DEF CheckClass, StepTypes, CtlTypes, CoreInv, Exhausted, enumVars, counters, ctlVars
  <2>4. OtherTypes'
    BY <1>0, <1>1, <2>2 DEF CheckClass, OtherTypes, portVars, userVars
  <2>5. ~busy'
    BY <1>1, <2>1, Quiet DEF CheckClass, ctlVars
  <2> QED
    BY <1>1, <2>1, <2>3, <2>4, <2>5
    DEF CheckClass, CoreInv, CoreTypeOK, StepTypes, CtlTypes, OtherTypes,
        InStep, Sleeping
<1>2. CASE ClassRequest
  <2>1. CASE CallAt("HOST_CLASS_REQUEST", "BUSY", 1) /\ Pending
    BY <2>1, CallStep, PendingStep
  <2>2. ASSUME NEW status \in {"OK", "NOT_SUPPORTED", "FAIL"},
               CallAt("HOST_CLASS_REQUEST", status, 1),
               gState' \in {"HOST_CLASS", "HOST_ABORT_STATE"},
               pipes' \subseteq pipes, Apart, UNCHANGED enumVars
        PROVE  CoreInv'
    <3>1. /\ gState = "HOST_CLASS_REQUEST" /\ pc = "wait" /\ events' \in 0..QLen
          /\ CtlTypes' /\ ~busy'
      BY <2>2, CallStep
    <3>2. StepTypes' /\ Exhausted'
      BY <1>0, <2>2, <3>1 DEF CoreInv, StepTypes, Exhausted, enumVars, counters
    <3>3. InStep'
      BY <3>1 DEF InStep
    <3> QED BY <2>2, <3>1, <3>2, <3>3, ApartStep
  <2> QED BY <1>2, <2>1, <2>2 DEF ClassRequest, FreeControlPipes
<1>3. CASE ClassInit
  <2>1. CASE At("HOST_CLASS") /\ ~busy /\ Take(1) /\ Pending /\ UNCHANGED ctlVars
    <3>1. pc = "wait" /\ events' \in 0..QLen
      BY <1>0, <2>1, TakeQueue
    <3>2. CtlTypes' /\ ~busy'
      BY <1>0, <2>1 DEF CtlTypes, ctlVars
    <3> QED BY <2>1, <3>1, <3>2, PendingStep
  <2>2. CASE \E status \in {"BUSY", "OK", "NOT_SUPPORTED"} :
               CallAt("HOST_CLASS", status, 1) /\ Pending
    BY <2>2, CallStep, PendingStep
  <2>3. CASE CallAt("HOST_CLASS", "FAIL", 1) /\ GivenUp
    BY <2>3, CallStep, GivenUpStep
  <2> QED BY <1>3, <2>1, <2>2, <2>3 DEF ClassInit
<1>4. CASE ClassActive
  <2>1. gState = "HOST_CLASS" /\ pc = "wait" /\ events' \in 0..QLen
    BY <1>0, <1>4, TakeQueue DEF ClassActive, At
  <2>2. StepTypes' /\ CtlTypes' /\ Exhausted'
    BY <1>0, <1>4
    DEF ClassActive, StepTypes, CtlTypes, CoreInv, Exhausted, enumVars, counters, ctlVars
  <2>3. OtherTypes'
    BY <1>0, <1>4 DEF ClassActive, OtherTypes, portVars, pipeNos, mscVars
  <2>4. ~busy'
    BY <1>4 DEF ClassActive, ctlVars
  <2> QED
    BY <1>4, <2>1, <2>2, <2>3, <2>4
    DEF ClassActive, CoreInv, CoreTypeOK, StepTypes, CtlTypes, OtherTypes,
        InStep, Sleeping
<1>5. CASE ClassIdle
  <2>1. gState = "HOST_CLASS" /\ pc = "wait" /\ events' \in 0..QLen
    BY <1>0, <1>5, TakeQueue DEF ClassIdle, At
  <2>2. CoreTypeOK'
    BY <1>5, <2>1
    DEF CoreInv, CoreTypeOK, ClassIdle, Pending, Apart, portVars, enumVars, counters, ctlVars,
        pipeNos, mscVars, userVars
  <2> QED
    BY <1>5, <2>1, <2>2
    DEF ClassIdle, At, Pending, Apart, enumVars, counters, ctlVars, CoreInv, InStep,
        CurrentStep, Sleeping, Exhausted
<1> QED BY <1>1, <1>2, <1>3, <1>4, <1>5

(* A session of the application: the thread that stays in it sees          *)
(* HOST_CLASS, where the USB thread is never asleep.                       *)
LEMMA AppStep == CoreInv /\ ~AppPersists /\ Application => CoreInv'
<1> SUFFICES ASSUME CoreInv, ~AppPersists, Application PROVE CoreInv'
  OBVIOUS
<1>0. StepTypes /\ CtlTypes /\ OtherTypes /\ events \in 0..QLen
  BY TypeParts DEF CoreInv
<1>1. ASSUME AppActs
      PROVE  gState = "HOST_CLASS" /\ mscState = "MSC_READ" /\ pc = "wait"
  BY <1>1 DEF AppActs, CoreInv, CoreTypeOK, Sleeping
<1>2. CASE AppBegins
  <2>1. StepTypes' /\ CtlTypes'
    BY <1>0, <1>2 DEF AppBegins, StepTypes, CtlTypes, enumVars, counters, ctlVars
  <2>2. OtherTypes'
    BY <1>0, <1>2 DEF AppBegins, OtherTypes, portVars, pipeNos, userVars
  <2>3. events' = events /\ gState = "HOST_CLASS" /\ pc = "wait"
    BY <1>2 DEF AppBegins, CoreInv, CoreTypeOK, Sleeping
  <2> QED
    BY <1>0, <1>2, <2>1, <2>2, <2>3
    DEF AppBegins, CoreInv, CoreTypeOK, StepTypes, CtlTypes, OtherTypes,
        InStep, CurrentStep, Sleeping, Exhausted, portVars, enumVars,
        counters, ctlVars, userVars
<1>3. CASE AppTransfers
  <2>1. events' \in 0..QLen
    BY <1>0, <1>3, NotifyQueue DEF AppTransfers
  <2>2. CtlTypes' /\ (busy' => req' = Request(CurrentStep))
    BY <1>0, <1>3 DEF AppTransfers, CtlTypes, ctlVars, CoreInv, InStep
  <2> QED BY <1>1, <1>3, <2>1, <2>2, PendingStep DEF AppTransfers
<1>4. CASE AppClearsStall
  <2>1. PICK status \in {"BUSY", "OK", "NOT_SUPPORTED", "FAIL"}, n \in 1..2 :
          /\ CtlReq("HOST_CLASS", status, n) /\ events' = Capped(events + n + 1)
          /\ IF status = "FAIL" THEN GivenUp ELSE Pending
    BY <1>4 DEF AppClearsStall
  <2>2. gState = "HOST_CLASS" /\ pc = "wait"
    BY <1>1, <1>4 DEF AppClearsStall
  <2>3. CurrentStep = "HOST_CLASS" /\ CurrentStep \in Reads \union Writes
    BY <2>2 DEF CurrentStep, Writes
  <2>4. CtlTypes' /\ (busy' => req' = Request(CurrentStep)) /\ (status # "BUSY" => ~busy')
    BY <2>1, <2>3, CtlReqStep DEF CoreInv
  <2>5. events + n + 1 \in Nat /\ events + n + 1 > 0
    BY <1>0, CoreAssumption
  <2>6. events' \in 0..QLen
    BY <2>1, <2>5, QueueBound
  <2> QED BY <2>1, <2>2, <2>4, <2>6, PendingStep, GivenUpStep
<1>5. CASE AppEnds
  <2>1. StepTypes' /\ CtlTypes'
    BY <1>0, <1>5 DEF AppEnds, StepTypes, CtlTypes, enumVars, counters, ctlVars
  <2>2. OtherTypes'
    BY <1>0, <1>5 DEF AppEnds, OtherTypes, portVars, pipeNos, userVars
  <2>3. \/ mscState' = mscState
        \/ gState = "HOST_CLASS" /\ pc = "wait" /\ mscState = "MSC_READ" /\ mscState' = "MSC_IDLE"
    BY <1>1, <1>5 DEF AppEnds
  <2> QED
    BY <1>0, <1>5, <2>1, <2>2, <2>3
    DEF AppEnds, CoreInv, CoreTypeOK, StepTypes, CtlTypes, OtherTypes,
        InStep, CurrentStep, Sleeping, Exhausted, portVars, enumVars,
        counters, ctlVars, userVars
<1> QED BY <1>2, <1>3, <1>4, <1>5 DEF Application

LEMMA EndStep == CoreInv /\ (Aborted \/ Disconnected \/ Restart) => CoreInv'
<1> SUFFICES ASSUME CoreInv, Aborted \/ Disconnected \/ Restart PROVE CoreInv'
  OBVIOUS
<1>0. StepTypes /\ CtlTypes /\ OtherTypes /\ events \in 0..QLen
  BY TypeParts DEF CoreInv
<1>1. CASE Aborted
  <2>1. pc = "wait" /\ events' \in 0..QLen
    BY <1>0, <1>1, TakeQueue DEF Aborted
  <2>2. CoreTypeOK'
    BY <1>1, <2>1
    DEF CoreInv, CoreTypeOK, Aborted, Pending, Apart, portVars, enumVars, counters, ctlVars,
        pipeNos, mscVars, userVars
  <2> QED
    BY <1>1, <2>1, <2>2
    DEF Aborted, At, Pending, Apart, enumVars, counters, ctlVars, CoreInv, InStep,
        CurrentStep, Sleeping, Exhausted
<1>2. CASE Disconnected
  <2>1. events' \in 0..QLen
    BY <1>0, <1>2, TakeQueue DEF Disconnected
  <2>2. StepTypes' /\ Exhausted'
    <3>1. rstCnt' = 0 /\ enumCnt' = 0 /\ UNCHANGED timeout /\ address' = 0 /\ pipes' = {}
          /\ gState' = "HOST_IDLE" /\ enumState' = "ENUM_IDLE"
      BY <1>2 DEF Disconnected
    <3> QED BY <1>0, <3>1, CoreAssumption DEF StepTypes, Exhausted
  <2>3. CtlTypes'
    <3>1. failures' \in 0..MaxErrorCount
      BY <1>2, CoreAssumption DEF Disconnected
    <3> QED BY <1>0, <1>2, <3>1 DEF Disconnected, CtlTypes
  <2>4. OtherTypes'
    BY <1>0, <1>2 DEF Disconnected, OtherTypes, pipeNos, mscVars, userVars
  <2> QED
    BY <1>2, <2>1, <2>2, <2>3, <2>4
    DEF Disconnected, CoreInv, CoreTypeOK, StepTypes, CtlTypes, OtherTypes,
        InStep, Sleeping
<1>3. CASE Restart
  <2>1. events' \in 0..QLen
    BY <1>0, <1>3, NotifyQueue DEF Restart
  <2>2. CoreTypeOK'
    <3>1. StepTypes' /\ CtlTypes'
      BY <1>0, <1>3 DEF Restart, StepTypes, CtlTypes, enumVars, counters, ctlVars
    <3>2. OtherTypes'
      BY <1>0, <1>3 DEF Restart, OtherTypes, portVars, pipeNos, mscVars
    <3> QED BY <2>1, <3>1, <3>2 DEF CoreTypeOK, StepTypes, CtlTypes, OtherTypes
  <2> QED
    BY <1>3, <2>1, <2>2
    DEF Restart, enumVars, counters, ctlVars, CoreInv, InStep, CurrentStep,
        Sleeping, Exhausted
<1> QED BY <1>1, <1>2, <1>3

(* An interrupt changes neither the state machine nor the place of the     *)
(* thread.                                                                 *)
LEMMA InterruptStep == CoreInv /\ Interrupt => CoreInv'
<1> SUFFICES ASSUME CoreInv, Interrupt PROVE CoreInv'
  OBVIOUS
<1>0. StepTypes /\ CtlTypes /\ OtherTypes /\ events \in 0..QLen
  BY TypeParts DEF CoreInv
<1>1. Untouched /\ pipes' \subseteq pipes /\ UNCHANGED <<busy, req, failures>>
  BY DEF Interrupt, ConnectIrq, DisconnectIrq, PortEnabledIrq, PortDisabledIrq, DeviceAcks,
         NotifyURBChange, Ctl!DeviceAcks, FreeControlPipes, ctlVars
<1>2. events' \in 0..QLen
  BY <1>0, NotifyQueue
  DEF Interrupt, ConnectIrq, DisconnectIrq, PortEnabledIrq, PortDisabledIrq, DeviceAcks,
      NotifyURBChange
<1>3. acked' \subseteq Ctl!Stages
  BY <1>0
  DEF Interrupt, ConnectIrq, DisconnectIrq, PortEnabledIrq, PortDisabledIrq, DeviceAcks,
      NotifyURBChange, Ctl!DeviceAcks, Ctl!Stages, ctlVars, CtlTypes
<1>4. /\ dev' \in {"none", "powered", "default", "addressed", "configured"}
      /\ raise' \in BOOLEAN
      /\ isConnected' \in BOOLEAN /\ isDisconnected' \in BOOLEAN /\ portEnabled' \in BOOLEAN
  BY <1>0
  DEF Interrupt, ConnectIrq, DisconnectIrq, PortEnabledIrq, PortDisabledIrq, DeviceAcks,
      NotifyURBChange, portVars, OtherTypes
<1>5. CoreTypeOK'
  <2>1. StepTypes'
    BY <1>0, <1>1 DEF Untouched, StepTypes, enumVars, counters
  <2>2. CtlTypes'
    BY <1>0, <1>1, <1>3 DEF CtlTypes
  <2>3. OtherTypes'
    BY <1>0, <1>1, <1>4 DEF Untouched, OtherTypes, pipeNos, mscVars, userVars
  <2> QED BY <1>2, <2>1, <2>2, <2>3 DEF CoreTypeOK, StepTypes, CtlTypes, OtherTypes
<1>6. InStep' /\ Sleeping' /\ Exhausted'
  BY <1>1
  DEF mscVars, CoreInv, Untouched, InStep, CurrentStep, Sleeping, Exhausted,
      enumVars, counters, userVars
<1> QED BY <1>5, <1>6 DEF CoreInv

LEMMA CoreStep == ~AppPersists /\ CoreInv /\ [CoreNext]_coreVars => CoreInv'
<1>1. ~AppPersists /\ CoreInv /\ CoreNext => CoreInv'
  BY IdleStep, AttachStep, EnumerationStep, SetupStep, ClassStep, AppStep, EndStep,
     InterruptStep DEF CoreNext, Thread
<1>2. CoreInv /\ UNCHANGED coreVars => CoreInv'
  BY DEF coreVars, portVars, enumVars, counters, ctlVars, pipeNos, mscVars, userVars, CoreInv,
         CoreTypeOK, InStep, CurrentStep, Sleeping, Exhausted
<1> QED BY <1>1, <1>2

----------------------------------------------------------------------------
(* The theorems.                                                           *)

THEOREM CoreInvariant == ASSUME ~AppPersists PROVE CoreSpec => []CoreInv
BY InitCore, CoreStep, PTL DEF CoreSpec

(* Every variable of the host keeps its type.                              *)
THEOREM CoreTypeCorrect == ASSUME ~AppPersists PROVE CoreSpec => []CoreTypeOK
<1>1. CoreInv => CoreTypeOK
  BY DEF CoreInv
<1> QED BY <1>1, CoreInvariant, PTL

----------------------------------------------------------------------------
(* Whose request is outstanding, for every application.                    *)

(* The states whose steps send control requests.                           *)
Callers == {"HOST_ENUMERATION", "HOST_SET_CONFIGURATION", "HOST_SET_WAKEUP_FEATURE",
            "HOST_CLASS_REQUEST", "HOST_CLASS"}

OfHost == gState \in Callers /\ req = Request(CurrentStep)
OfApplication == AppPersists /\ req = Request("HOST_CLASS")
OwnInv == busy => OfHost \/ OfApplication

(* A call of USBH_CtlReq by the USB thread begins the request of its step, *)
(* goes on with the one there is, or ends it.                              *)
LEMMA CallOwns ==
  ASSUME OwnInv, NEW state \in Callers, NEW status, NEW more, CallAt(state, status, more)
  PROVE  /\ gState = state
         /\ status # "BUSY" => ~busy'
         /\ busy' => req' = Request(CurrentStep) \/ (AppPersists /\ req' = Request("HOST_CLASS"))
<1>1. PICK n \in 1..2 : gState = state /\ CtlReq(CurrentStep, status, n)
  BY DEF CallAt, At
<1>2. CASE status = "BUSY" /\ req' = Request(CurrentStep)
  BY <1>1, <1>2
<1>3. CASE status = "BUSY" /\ UNCHANGED ctlVars
  BY <1>1, <1>3 DEF ctlVars, OwnInv, OfHost, OfApplication
<1>4. CASE ~busy'
  BY <1>1, <1>4
<1> QED
  BY <1>1, <1>2, <1>3, <1>4
  DEF CtlReq, Ctl!TryAgain, Ctl!Succeed, Ctl!Refuse, Ctl!GiveUp, Ctl!End

(* A step of the host that leaves the request and the place of the state   *)
(* machine alone, ends the request, or moves the state machine from where  *)
(* it sends none.                                                          *)
LEMMA OwnKept == OwnInv /\ UNCHANGED <<gState, enumState, busy, req>> => OwnInv'
BY DEF OwnInv, OfHost, OfApplication, CurrentStep

LEMMA OwnMoved == OwnInv /\ gState \notin Callers /\ UNCHANGED <<busy, req>> => OwnInv'
BY DEF OwnInv, OfHost, OfApplication

LEMMA OwnEnded == ~busy' => OwnInv'
BY DEF OwnInv

LEMMA OwnPending ==
  ASSUME OwnInv, NEW state \in Callers, NEW status, NEW more, CallAt(state, status, more),
         Pending
  PROVE  OwnInv'
<1>1. CurrentStep' = CurrentStep /\ gState' = gState
  BY DEF Pending, enumVars, CurrentStep
<1> QED BY <1>1, CallOwns DEF OwnInv, OfHost, OfApplication

(* Nothing moves the state machine to a request while the thread waits to  *)
(* open the control pipes.                                                 *)
AttachInv == pc = "attach" => gState \notin Callers

LEMMA AttachKept == AttachInv /\ CoreNext => AttachInv'
<1> SUFFICES ASSUME AttachInv, CoreNext PROVE AttachInv'
  OBVIOUS
<1>1. CASE AttachedUser
  BY <1>1 DEF AttachedUser, At, AttachInv, Callers
<1>2. CASE IdleConnected \/ ResetPort \/ AttachedOpen \/ Disconnected \/ Restart
  BY <1>2 DEF IdleConnected, ResetPort, AttachedOpen, Disconnected, Restart, AttachInv
<1>3. CASE IdleEmpty \/ WaitForAttachment \/ Input \/ CheckClass \/ ClassActive \/ ClassIdle
             \/ Aborted
  BY <1>3
  DEF IdleEmpty, WaitForAttachment, Input, CheckClass, ClassActive, ClassIdle, Aborted, Pending,
      Apart, Take, AttachInv
<1>4. CASE Enumeration \/ SetConfiguration \/ SetWakeupFeature \/ ClassRequest \/ ClassInit
  <2>1. pc = "wait"
    BY <1>4
    DEF Enumeration, EnumBusy, EnumGiveUp, EnumDescriptor, EnumDescriptorRefused, EnumSetAddress,
        EnumSetAddressRefused, EnumString, EnumLastString, StringDone, EnumCall, SetConfiguration,
        SetWakeupFeature, Configure, ClassRequest, ClassInit, CallAt, Take
  <2>2. UNCHANGED pc
    BY <1>4
    DEF Enumeration, EnumBusy, EnumGiveUp, EnumDescriptor, EnumDescriptorRefused, EnumSetAddress,
        EnumSetAddressRefused, EnumString, EnumLastString, SetConfiguration, SetWakeupFeature,
        Configure, ClassRequest, ClassInit, Pending, GivenUp, Apart
  <2> QED BY <2>1, <2>2 DEF AttachInv
<1>5. CASE Application
  <2>1. UNCHANGED pc /\ (UNCHANGED gState \/ gState' = "HOST_IDLE")
    BY <1>5
    DEF Application, AppBegins, AppTransfers, AppClearsStall, AppEnds, Pending, GivenUp, Apart
  <2> QED BY <2>1 DEF AttachInv, Callers
<1>6. CASE Interrupt
  <2>1. UNCHANGED <<pc, gState>>
    BY <1>6
    DEF Interrupt, ConnectIrq, DisconnectIrq, PortEnabledIrq, PortDisabledIrq, DeviceAcks,
        NotifyURBChange, Untouched
  <2> QED BY <2>1 DEF AttachInv
<1> QED BY <1>1, <1>2, <1>3, <1>4, <1>5, <1>6 DEF CoreNext, Thread

LEMMA OwnOfThread == AttachInv /\ OwnInv /\ Thread => OwnInv'
<1> SUFFICES ASSUME AttachInv, OwnInv, Thread PROVE OwnInv'
  OBVIOUS
<1>1. CASE IdleEmpty \/ ClassIdle \/ Aborted \/ Restart
  BY <1>1, OwnKept
  DEF IdleEmpty, ClassIdle, Aborted, Restart, Pending, enumVars, ctlVars
<1>2. CASE IdleConnected \/ WaitForAttachment \/ Input \/ CheckClass
  BY <1>2, OwnMoved
  DEF IdleConnected, WaitForAttachment, Input, CheckClass, At, ctlVars, Callers
<1>3. CASE AttachedUser \/ ResetPort \/ ClassActive
  BY <1>3, OwnKept DEF AttachedUser, ResetPort, ClassActive, enumVars, ctlVars
<1>4. CASE Disconnected
  BY <1>4, OwnEnded DEF Disconnected
<1>5. CASE Enumeration \/ SetConfiguration \/ SetWakeupFeature \/ ClassRequest \/ ClassInit
  <2>1. \/ \E state \in Callers : \E status, more : CallAt(state, status, more) /\ Pending
        \/ \E state \in Callers : \E status, more : CallAt(state, status, more) /\ status # "BUSY"
        \/ ~busy /\ UNCHANGED ctlVars
    BY <1>5
    DEF Enumeration, EnumBusy, EnumGiveUp, EnumDescriptor, EnumDescriptorRefused, EnumSetAddress,
        EnumSetAddressRefused, EnumString, EnumLastString, StringDone, EnumCall, SetConfiguration,
        SetWakeupFeature, Configure, ClassRequest, ClassInit, Callers
  <2>2. ~busy /\ UNCHANGED ctlVars => ~busy'
    BY DEF ctlVars
  <2> QED BY <2>1, <2>2, OwnPending, CallOwns, OwnEnded
<1>6. CASE AttachedOpen
  BY <1>6, OwnMoved DEF AttachedOpen, AttachInv, ctlVars
<1> QED BY <1>1, <1>2, <1>3, <1>4, <1>5, <1>6 DEF Thread

(* The application begins its request in HOST_CLASS, or persists.          *)
LEMMA OwnOfApplication == OwnInv /\ Application => OwnInv'
<1> SUFFICES ASSUME OwnInv, Application PROVE OwnInv'
  OBVIOUS
<1>1. CASE AppBegins \/ AppTransfers \/ AppEnds
  BY <1>1, OwnKept DEF AppBegins, AppTransfers, AppEnds, Pending, enumVars, ctlVars
<1>2. CASE AppClearsStall
  <2>1. PICK status \in {"BUSY", "OK", "NOT_SUPPORTED", "FAIL"}, n \in 1..2 :
          CtlReq("HOST_CLASS", status, n) /\ IF status = "FAIL" THEN GivenUp ELSE Pending
    BY <1>2 DEF AppClearsStall
  <2>2. CASE status = "BUSY" /\ req' = Request("HOST_CLASS")
    <3>1. gState' = gState /\ (AppPersists \/ gState = "HOST_CLASS")
      BY <1>2, <2>1, <2>2 DEF AppClearsStall, AppActs, Pending
    <3> QED BY <2>2, <3>1 DEF OwnInv, OfHost, OfApplication, CurrentStep, Callers
  <2>3. CASE status = "BUSY" /\ UNCHANGED ctlVars
    BY <2>1, <2>3, OwnKept DEF Pending, enumVars, ctlVars
  <2>4. CASE ~busy'
    BY <2>4, OwnEnded
  <2> QED
    BY <2>1, <2>2, <2>3, <2>4
    DEF CtlReq, Ctl!TryAgain, Ctl!Succeed, Ctl!Refuse, Ctl!GiveUp, Ctl!End
<1> QED BY <1>1, <1>2 DEF Application

LEMMA OwnOfInterrupt == OwnInv /\ Interrupt => OwnInv'
<1> SUFFICES ASSUME OwnInv, Interrupt PROVE OwnInv'
  OBVIOUS
<1>1. UNCHANGED <<gState, enumState, busy, req>>
  BY DEF Interrupt, ConnectIrq, DisconnectIrq, PortEnabledIrq, PortDisabledIrq, DeviceAcks,
         NotifyURBChange, Untouched, enumVars, ctlVars, Ctl!DeviceAcks
<1> QED BY <1>1, OwnKept

(* The outstanding request is the one of the step the host is at, whatever *)
(* the application does, however devices come and go and however often     *)
(* requests are given up: only CLEAR_FEATURE of an application that        *)
(* outlives its session may stand in its place.                            *)
THEOREM CoreOwnRequest == CoreSpec => []OwnRequest
<1>1. CoreInit => AttachInv /\ OwnInv
  BY DEF CoreInit, AttachInv, OwnInv
<1>2. AttachInv /\ OwnInv /\ [CoreNext]_coreVars => AttachInv' /\ OwnInv'
  <2>1. AttachInv /\ OwnInv /\ CoreNext => AttachInv' /\ OwnInv'
    BY AttachKept, OwnOfThread, OwnOfApplication, OwnOfInterrupt DEF CoreNext
  <2>2. AttachInv /\ OwnInv /\ UNCHANGED coreVars => AttachInv' /\ OwnInv'
    BY OwnKept DEF coreVars, enumVars, ctlVars, AttachInv
  <2> QED BY <2>1, <2>2
<1>3. OwnInv => OwnRequest
  BY DEF OwnInv, OfHost, OfApplication, OwnRequest, OwnSteps
<1> QED BY <1>1, <1>2, <1>3, PTL DEF CoreSpec

----------------------------------------------------------------------------
(* Who owns which pipe.                                                    *)

LEMMA AllocApart ==
  ASSUME NEW first, NEW second, Alloc(first, second)
  PROVE  /\ {first, second} \ {NoPipe} \subseteq pipes'
         /\ pipes \ {NoPipe} \subseteq pipes'
         /\ {first, second} \intersect pipes \subseteq {NoPipe}
         /\ first = second => first = NoPipe
BY DEF Alloc, FreePipe

(* 255 is handed out when nothing else is left; and two free pipes are     *)
(* both allocated.                                                         *)
LEMMA AllocDry ==
  ASSUME NEW first, NEW second, Alloc(first, second)
  PROVE  /\ NoPipe \in {first, second} => AllPipes \subseteq pipes'
         /\ \A a, b : AllPipes \subseteq pipes \union {a, b} => AllPipes \subseteq pipes'
<1>1. NoPipe \notin AllPipes
  BY CoreAssumption DEF NoPipe, AllPipes
<1>2. NoPipe \in {first, second} => AllPipes \subseteq pipes'
  BY <1>1 DEF Alloc, FreePipe
<1>3. ASSUME NEW a, NEW b, AllPipes \subseteq pipes \union {a, b}
      PROVE  AllPipes \subseteq pipes'
  BY <1>1, <1>3 DEF Alloc, FreePipe
<1> QED BY <1>2, <1>3

(* While a class handle is open, the control pipes are none of its pipes,  *)
(* also when the host has given them up: the application's thread may give *)
(* them up once more.                                                      *)
PipesApart ==
  ~isDisconnected /\ ClassOpen => {ctlOut, ctlIn} \intersect {mscOut, mscIn} \subseteq {NoPipe}
PipeInv == PipeOwnership /\ PipesApart

(* A step that touches no pipe, and by which the host and its class use no *)
(* more of them than before.                                               *)
LEMMA PipesKept ==
  ASSUME PipeInv, UNCHANGED <<pipes, pipeNos>>, isDisconnected => isDisconnected',
         ControlOpen' => ControlOpen, ClassOpen' => ClassOpen
  PROVE  PipeInv'
BY DEF PipeInv, PipeOwnership, PipesApart, pipeNos, InUse, PoolDry

(* A step that gives the control pipes up, those of an earlier enumeration *)
(* too: they are none of the class's.                                      *)
LEMMA PipesFreed ==
  ASSUME PipeInv, FreeControlPipes, UNCHANGED <<pipeNos, mscState, isDisconnected>>,
         ~ControlOpen'
  PROVE  PipeInv'
<1>1. UNCHANGED <<ctlOut, ctlIn, mscOut, mscIn>> /\ ClassOpen' = ClassOpen
  BY DEF pipeNos, ClassOpen
<1>2. PoolDry => PoolDry'
  BY <1>1 DEF PoolDry, FreeControlPipes
<1>3. InUse' = IF ClassOpen THEN {mscOut, mscIn} ELSE {}
  BY <1>1 DEF InUse
<1> QED BY <1>1, <1>2, <1>3 DEF PipeInv, PipeOwnership, PipesApart, FreeControlPipes, InUse

LEMMA PipesSuspended == isDisconnected' => PipeInv'
BY DEF PipeInv, PipeOwnership, PipesApart

LEMMA PipesOfThread == PipeInv /\ Thread => PipeInv'
<1> SUFFICES ASSUME PipeInv, Thread PROVE PipeInv'
  OBVIOUS
<1>1. CASE IdleEmpty \/ IdleConnected \/ ResetPort \/ WaitForAttachment \/ AttachedUser
  <2>1. UNCHANGED <<pipes, pipeNos, mscState, isDisconnected>>
    BY <1>1
    DEF IdleEmpty, IdleConnected, ResetPort, WaitForAttachment, AttachedUser, Pending, Apart,
        portVars, mscVars
  <2>2. ControlOpen' => ControlOpen
    BY <1>1
    DEF IdleEmpty, IdleConnected, ResetPort, WaitForAttachment, AttachedUser, Pending, ControlOpen
  <2> QED BY <2>1, <2>2, PipesKept DEF ClassOpen
<1>2. CASE AttachedOpen
  <2>1. CASE isDisconnected
    BY <1>2, <2>1, PipesSuspended DEF AttachedOpen, portVars
  <2>2. CASE ~isDisconnected
    <3>1. UNCHANGED <<mscOut, mscIn, mscState>> /\ Alloc(ctlOut', ctlIn')
      BY <1>2 DEF AttachedOpen, mscVars
    <3>2. /\ {ctlOut', ctlIn'} \ {NoPipe} \subseteq pipes'
          /\ pipes \ {NoPipe} \subseteq pipes'
          /\ {ctlOut', ctlIn'} \intersect pipes \subseteq {NoPipe}
          /\ ctlOut' = ctlIn' => ctlOut' = NoPipe
      BY <3>1, AllocApart
    <3>3. ClassOpen' => /\ {mscOut, mscIn} \ {NoPipe} \subseteq pipes
                        /\ (mscOut = mscIn => mscOut = NoPipe)
                        /\ (NoPipe \in {mscOut, mscIn} => PoolDry)
      BY <2>2, <3>1 DEF PipeInv, PipeOwnership, PipesApart, ClassOpen, InUse
    <3>4. NoPipe \in InUse' => PoolDry'
      <4>1. CASE NoPipe \in {ctlOut', ctlIn'}
        BY <3>1, <4>1, AllocDry DEF PoolDry
      <4>2. CASE ClassOpen' /\ NoPipe \in {mscOut, mscIn}
        BY <3>1, <3>3, <4>2, AllocDry DEF PoolDry
      <4> QED BY <3>1, <4>1, <4>2 DEF InUse
    <3>5. (InUse \ {NoPipe} \subseteq pipes)'
      BY <3>1, <3>2, <3>3 DEF InUse
    <3> QED BY <3>1, <3>2, <3>3, <3>4, <3>5 DEF PipeInv, PipeOwnership, PipesApart
  <2> QED BY <2>1, <2>2
<1>3. CASE Enumeration
  <2>1. gState = "HOST_ENUMERATION" /\ ControlOpen
    BY <1>3
    DEF Enumeration, EnumBusy, EnumGiveUp, EnumDescriptor, EnumDescriptorRefused, EnumSetAddress,
        EnumSetAddressRefused, EnumString, EnumLastString, StringDone, EnumCall, CallAt, At,
        ControlOpen
  <2>2. UNCHANGED <<pipeNos, mscState, isDisconnected>>
    BY <1>3
    DEF Enumeration, EnumBusy, EnumGiveUp, EnumDescriptor, EnumDescriptorRefused, EnumSetAddress,
        EnumSetAddressRefused, EnumString, EnumLastString, Pending, GivenUp, Apart, portVars,
        mscVars
  <2>3. UNCHANGED pipes \/ (FreeControlPipes /\ ~ControlOpen')
    BY <1>3
    DEF Enumeration, EnumBusy, EnumGiveUp, EnumDescriptor, EnumDescriptorRefused, EnumSetAddress,
        EnumSetAddressRefused, EnumString, EnumLastString, EnumNext, Pending, GivenUp, ControlOpen
  <2> QED BY <2>1, <2>2, <2>3, PipesKept, PipesFreed DEF ClassOpen
<1>4. CASE Input \/ SetConfiguration \/ SetWakeupFeature \/ ClassRequest \/ ClassInit
  <2>1. ControlOpen
    BY <1>4
    DEF Input, SetConfiguration, SetWakeupFeature, Configure, ClassRequest, ClassInit, CallAt, At,
        ControlOpen
  <2>2. UNCHANGED <<pipeNos, mscState, isDisconnected>>
    BY <1>4
    DEF Input, SetConfiguration, SetWakeupFeature, Configure, ClassRequest, ClassInit, Pending,
        GivenUp, Apart, portVars, mscVars
  <2>3. UNCHANGED pipes \/ (FreeControlPipes /\ ~ControlOpen')
    BY <1>4
    DEF Input, SetConfiguration, SetWakeupFeature, Configure, ClassRequest, ClassInit, Pending,
        GivenUp, ControlOpen
  <2> QED BY <2>1, <2>2, <2>3, PipesKept, PipesFreed DEF ClassOpen
<1>5. CASE CheckClass
  <2>1. ~isDisconnected /\ ControlOpen /\ UNCHANGED <<ctlOut, ctlIn>>
    BY <1>5 DEF CheckClass, At, ControlOpen
  <2>2. CASE gState' = "HOST_ABORT_STATE" /\ (ClassOpen' => ClassOpen)
             /\ UNCHANGED <<pipes, mscOut, mscIn>>
    BY <2>1, <2>2 DEF PipeInv, PipeOwnership, PipesApart, ControlOpen, InUse, PoolDry
  <2>3. CASE Alloc(mscOut', mscIn')
    <3>1. /\ {mscOut', mscIn'} \ {NoPipe} \subseteq pipes'
          /\ pipes \ {NoPipe} \subseteq pipes'
          /\ {mscOut', mscIn'} \intersect pipes \subseteq {NoPipe}
          /\ mscOut' = mscIn' => mscOut' = NoPipe
      BY <2>3, AllocApart
    <3>2. /\ {ctlOut, ctlIn} \ {NoPipe} \subseteq pipes
          /\ (ctlOut = ctlIn => ctlOut = NoPipe)
          /\ (NoPipe \in {ctlOut, ctlIn} => PoolDry)
      BY <2>1 DEF PipeInv, PipeOwnership, PipesApart, InUse
    <3>3. NoPipe \in InUse' => PoolDry'
      <4>1. CASE NoPipe \in {ctlOut, ctlIn}
        BY <2>1, <2>3, <3>2, <4>1, AllocDry DEF PoolDry
      <4>2. CASE NoPipe \in {mscOut', mscIn'}
        BY <2>1, <2>3, <4>2, AllocDry DEF PoolDry
      <4> QED BY <2>1, <4>1, <4>2 DEF InUse
    <3>4. (InUse \ {NoPipe} \subseteq pipes)'
      BY <2>1, <3>1, <3>2 DEF InUse
    <3> QED BY <2>1, <3>1, <3>2, <3>3, <3>4 DEF PipeInv, PipeOwnership, PipesApart
  <2> QED BY <1>5, <2>2, <2>3 DEF CheckClass, ClassOpen
<1>6. CASE ClassActive \/ ClassIdle \/ Aborted \/ Restart
  <2>1. UNCHANGED <<pipes, pipeNos, gState, isDisconnected>>
    BY <1>6
    DEF ClassActive, ClassIdle, Aborted, Restart, Pending, Apart, portVars
  <2>2. ClassOpen' => ClassOpen
    BY <1>6
    DEF ClassActive, ClassIdle, Aborted, Restart, Pending, Apart, mscVars, ClassOpen
  <2> QED BY <2>1, <2>2, PipesKept DEF ControlOpen
<1>7. CASE Disconnected
  BY <1>7 DEF Disconnected, PipeInv, PipeOwnership, PipesApart, ControlOpen, ClassOpen, InUse
<1> QED BY <1>1, <1>2, <1>3, <1>4, <1>5, <1>6, <1>7 DEF Thread

LEMMA PipesOfApplication == PipeInv /\ Application => PipeInv'
<1> SUFFICES ASSUME PipeInv, Application PROVE PipeInv'
  OBVIOUS
<1>1. CASE AppBegins \/ AppTransfers \/ AppEnds
  <2>1. UNCHANGED <<pipes, pipeNos, gState, isDisconnected>>
    BY <1>1 DEF AppBegins, AppTransfers, AppEnds, Pending, Apart, portVars
  <2>2. ClassOpen' => ClassOpen
    BY <1>1 DEF AppBegins, AppTransfers, AppEnds, AppActs, Pending, Apart, mscVars, ClassOpen
  <2> QED BY <2>1, <2>2, PipesKept DEF ControlOpen
<1>2. CASE AppClearsStall
  <2>1. CASE Pending
    BY <2>1, PipesKept DEF Pending, Apart, portVars, mscVars, ControlOpen, ClassOpen
  <2>2. CASE GivenUp
    BY <2>2, PipesFreed DEF GivenUp, Apart, portVars, mscVars, ControlOpen
  <2> QED BY <1>2, <2>1, <2>2 DEF AppClearsStall
<1> QED BY <1>1, <1>2 DEF Application

LEMMA PipesOfInterrupt == PipeInv /\ ~QuickReplug /\ Interrupt => PipeInv'
<1> SUFFICES ASSUME PipeInv, ~QuickReplug, Interrupt PROVE PipeInv'
  OBVIOUS
<1>1. CASE DisconnectIrq
  BY <1>1, PipesSuspended DEF DisconnectIrq
<1>2. CASE ConnectIrq \/ PortEnabledIrq \/ PortDisabledIrq \/ DeviceAcks \/ NotifyURBChange
  <2>1. UNCHANGED <<pipes, pipeNos, gState, mscState>>
    BY <1>2
    DEF ConnectIrq, PortEnabledIrq, PortDisabledIrq, DeviceAcks, NotifyURBChange, Untouched,
        mscVars
  <2>2. isDisconnected => isDisconnected'
    BY <1>2 DEF ConnectIrq, PortEnabledIrq, PortDisabledIrq, DeviceAcks, NotifyURBChange, portVars
  <2> QED BY <2>1, <2>2, PipesKept DEF ControlOpen, ClassOpen
<1> QED BY <1>1, <1>2 DEF Interrupt

(* However few pipes there are and however many of them were leaked, and   *)
(* also when the application's thread goes on after the host has left      *)
(* HOST_CLASS: no pipe of the pool is in use twice, and 255 is handed out  *)
(* only when the pool is dry, if no device is plugged in before the        *)
(* unplugging of the last one was handled.                                 *)
THEOREM CorePipeOwnership ==
  ASSUME ~QuickReplug PROVE CoreSpec => []PipeOwnership
<1>1. CoreInit => PipeInv
  BY DEF CoreInit, PipeInv, PipeOwnership, PipesApart, ControlOpen, ClassOpen, InUse
<1>2. PipeInv /\ [CoreNext]_coreVars => PipeInv'
  <2>1. PipeInv /\ CoreNext => PipeInv'
    BY PipesOfThread, PipesOfApplication, PipesOfInterrupt DEF CoreNext
  <2>2. PipeInv /\ UNCHANGED coreVars => PipeInv'
    BY PipesKept DEF coreVars, portVars, mscVars, ControlOpen, ClassOpen
  <2> QED BY <2>1, <2>2
<1>3. PipeInv => PipeOwnership
  BY DEF PipeInv
<1> QED BY <1>1, <1>2, <1>3, PTL DEF CoreSpec

----------------------------------------------------------------------------
(* While no request is given up, only the pipes in use are allocated, so   *)
(* a pool of four never runs dry.                                          *)

Detached == {"HOST_IDLE", "HOST_DEV_WAIT_FOR_ATTACHMENT", "HOST_DEV_ATTACHED"}
InClass == {"HOST_CLASS_REQUEST", "HOST_CLASS"}

ClassPipes ==
  /\ pipes = {ctlOut, ctlIn, mscOut, mscIn}
  /\ ctlOut # ctlIn /\ mscOut # mscIn
  /\ {ctlOut, ctlIn} \intersect {mscOut, mscIn} = {}

TidyPool ==
  /\ gState \in Detached => pipes = {}
  /\ gState \notin Detached \union InClass \union {"HOST_ABORT_STATE"} =>
       pipes = {ctlOut, ctlIn} /\ ctlOut # ctlIn
  /\ gState \in InClass => ClassPipes
  /\ gState \notin InClass => ~ClassOpen

Tidy ==
  /\ pipes \subseteq AllPipes
  /\ ~isDisconnected => TidyPool /\ (pc = "attach" => gState = "HOST_DEV_ATTACHED")

LEMMA AllocReal ==
  ASSUME NPipes \in 4..255, NEW first, NEW second, Alloc(first, second),
         pipes \subseteq AllPipes, NEW a, NEW b, pipes \subseteq {a, b}
  PROVE  /\ first # second /\ first \notin pipes /\ second \notin pipes
         /\ pipes' = pipes \union {first, second} /\ pipes' \subseteq AllPipes
<1>1. 0 \in AllPipes /\ 1 \in AllPipes /\ 2 \in AllPipes /\ 3 \in AllPipes
  BY DEF AllPipes
<1>2. NoPipe \notin AllPipes
  BY DEF NoPipe, AllPipes
<1>3. \A x, y, z : ~(AllPipes \subseteq {x, y, z})
  BY <1>1
<1>4. first \in AllPipes \ pipes
  BY <1>3 DEF Alloc, FreePipe
<1>5. ~(AllPipes \subseteq pipes \union {first})
  <2>1. pipes \union {first} \subseteq {a, b, first}
    OBVIOUS
  <2> QED BY <1>3, <2>1
<1>6. second \in AllPipes \ (pipes \union {first})
  BY <1>5 DEF Alloc, FreePipe
<1> QED BY <1>2, <1>4, <1>6 DEF Alloc

(* A step that moves the state machine within the states of one kind.      *)
LEMMA TidyKept ==
  ASSUME Tidy, UNCHANGED <<pipes, pipeNos>>, isDisconnected => isDisconnected',
         pc' # "attach" \/ UNCHANGED <<pc, gState>>,
         ClassOpen' => ClassOpen,
         \/ UNCHANGED gState
         \/ gState \in Detached /\ gState' \in Detached \union {"HOST_ABORT_STATE"}
         \/ gState \in InClass /\ gState' \in InClass
         \/ ~ClassOpen' /\ gState' = "HOST_ABORT_STATE"
         \/ /\ gState \notin Detached \union InClass \union {"HOST_ABORT_STATE"}
            /\ gState' \notin Detached \union InClass \union {"HOST_ABORT_STATE"}
  PROVE  Tidy'
BY DEF Tidy, TidyPool, ClassPipes, pipeNos, Detached, InClass

LEMMA TidySuspended == pipes' \subseteq AllPipes /\ isDisconnected' => Tidy'
BY DEF Tidy

(* A call of USBH_CtlReq does not fail while there is an attempt left.     *)
LEMMA NoFailure ==
  ASSUME NoGiveUp PROVE /\ \A step, n : ~CtlReq(step, "FAIL", n)
                        /\ \A state, more : ~CallAt(state, "FAIL", more)
BY CoreAssumption DEF NoGiveUp, CallAt, CtlReq, Ctl!GiveUp

(* The control pipes, all there are, are given back.                       *)
LEMMA TidyFreed ==
  ASSUME Tidy, ~isDisconnected, gState = "HOST_ENUMERATION",
         FreeControlPipes, gState' = "HOST_IDLE", UNCHANGED <<pc, mscState>>
  PROVE  Tidy'
<1>1. pipes' = {} /\ ~ClassOpen' /\ pc # "attach"
  BY DEF Tidy, TidyPool, FreeControlPipes, Detached, InClass, ClassOpen
<1> QED BY <1>1 DEF Tidy, TidyPool, Detached, InClass

LEMMA TidyThread == NPipes \in 4..255 /\ Tidy /\ NoGiveUp /\ Thread => Tidy'
<1> SUFFICES ASSUME NPipes \in 4..255, Tidy, NoGiveUp, Thread PROVE Tidy'
  OBVIOUS
<1>1. CASE IdleEmpty \/ IdleConnected \/ ResetPort \/ WaitForAttachment \/ ClassActive
             \/ ClassIdle \/ Aborted \/ Restart
  <2>1. /\ UNCHANGED <<pipes, pipeNos, isDisconnected>> /\ pc' # "attach"
        /\ (ClassOpen' => ClassOpen)
    BY <1>1
    DEF IdleEmpty, IdleConnected, ResetPort, WaitForAttachment, ClassActive, ClassIdle, Aborted,
        Restart, Pending, Apart, Take, portVars, mscVars, ClassOpen
  <2>2. CASE UNCHANGED gState
    BY <2>1, <2>2, TidyKept
  <2>3. CASE gState \in Detached /\ gState' \in Detached \union {"HOST_ABORT_STATE"}
    BY <2>1, <2>3, TidyKept
  <2> QED
    BY <1>1, <2>2, <2>3
    DEF IdleEmpty, IdleConnected, ResetPort, WaitForAttachment, ClassActive, ClassIdle, Aborted,
        Restart, Pending, At, Detached
<1>2. CASE AttachedUser
  <2>1. UNCHANGED <<pipes, pipeNos, gState, mscState, isDisconnected>> /\ gState = "HOST_DEV_ATTACHED"
    BY <1>2 DEF AttachedUser, At, portVars, mscVars
  <2> QED BY <2>1 DEF Tidy, TidyPool, Detached, InClass, ClassOpen
<1>3. CASE AttachedOpen
  <2>1. Alloc(ctlOut', ctlIn') /\ pipes \subseteq AllPipes
    BY <1>3 DEF AttachedOpen, Tidy
  <2>2. CASE isDisconnected
    <3>1. pipes' \subseteq AllPipes /\ isDisconnected'
      BY <1>3, <2>1, <2>2, AllocPipes DEF AttachedOpen, portVars
    <3> QED BY <3>1, TidySuspended
  <2>3. CASE ~isDisconnected
    <3>1. pipes = {} /\ ~ClassOpen' /\ gState' = "HOST_ENUMERATION" /\ pc' = "wait"
      BY <1>3, <2>3
      DEF AttachedOpen, Tidy, TidyPool, Detached, InClass, mscVars, ClassOpen
    <3>2. ctlOut' # ctlIn' /\ pipes' = {ctlOut', ctlIn'} /\ pipes' \subseteq AllPipes
      BY <2>1, <3>1, AllocReal
    <3> QED BY <3>1, <3>2 DEF Tidy, TidyPool, Detached, InClass
  <2> QED BY <2>2, <2>3
<1>4. CASE Enumeration
  <2>1. gState = "HOST_ENUMERATION" /\ ~isDisconnected /\ pc = "wait"
    BY <1>4
    DEF Enumeration, EnumBusy, EnumGiveUp, EnumDescriptor, EnumDescriptorRefused, EnumSetAddress,
        EnumSetAddressRefused, EnumString, EnumLastString, StringDone, EnumCall, CallAt, At, Take
  <2>2. UNCHANGED <<pc, pipeNos, mscState, isDisconnected>>
    BY <1>4
    DEF Enumeration, EnumBusy, EnumGiveUp, EnumDescriptor, EnumDescriptorRefused, EnumSetAddress,
        EnumSetAddressRefused, EnumString, EnumLastString, Pending, GivenUp, Apart, portVars,
        mscVars
  <2>3. \/ FreeControlPipes /\ gState' = "HOST_IDLE"
        \/ UNCHANGED pipes /\ gState' \in {"HOST_ENUMERATION", "HOST_ABORT_STATE", "HOST_INPUT",
                                            "HOST_SET_CONFIGURATION"}
    BY <1>4, <2>1, NoFailure
    DEF Enumeration, EnumBusy, EnumGiveUp, EnumDescriptor, EnumDescriptorRefused, EnumSetAddress,
        EnumSetAddressRefused, EnumString, EnumLastString, EnumNext, EnumCall, Pending
  <2>4. ~ClassOpen /\ ~ClassOpen'
    BY <2>1, <2>2 DEF Tidy, TidyPool, InClass, ClassOpen
  <2>5. CASE FreeControlPipes /\ gState' = "HOST_IDLE"
    BY <2>1, <2>2, <2>5, TidyFreed
  <2>6. CASE UNCHANGED pipes /\ gState' = "HOST_ABORT_STATE"
    BY <2>1, <2>2, <2>4, <2>6, TidyKept
  <2>7. CASE UNCHANGED pipes /\ gState' \in {"HOST_ENUMERATION", "HOST_INPUT",
                                             "HOST_SET_CONFIGURATION"}
    BY <2>1, <2>2, <2>4, <2>7, TidyKept DEF Detached, InClass
  <2> QED BY <2>3, <2>5, <2>6, <2>7
<1>5. CASE Input \/ SetConfiguration \/ SetWakeupFeature
  <2>1. /\ gState \in {"HOST_INPUT", "HOST_SET_CONFIGURATION", "HOST_SET_WAKEUP_FEATURE"}
        /\ gState' \in {"HOST_INPUT", "HOST_SET_CONFIGURATION", "HOST_SET_WAKEUP_FEATURE",
                         "HOST_CHECK_CLASS"}
        /\ pc = "wait" /\ UNCHANGED <<pc, pipes, pipeNos, mscState, isDisconnected>>
    BY <1>5, NoFailure
    DEF Input, SetConfiguration, SetWakeupFeature, Configure, CallAt, At, Take, Pending, Apart,
        portVars, mscVars
  <2> QED BY <2>1, TidyKept DEF Detached, InClass, ClassOpen
<1>6. CASE CheckClass
  <2>1. /\ gState = "HOST_CHECK_CLASS" /\ ~isDisconnected /\ pc = "wait"
        /\ UNCHANGED <<pc, ctlOut, ctlIn, isDisconnected>>
    BY <1>6 DEF CheckClass, At, Take, portVars
  <2>2. pipes = {ctlOut, ctlIn} /\ ctlOut # ctlIn /\ pipes \subseteq AllPipes /\ ~ClassOpen
    BY <2>1 DEF Tidy, TidyPool, Detached, InClass
  <2>3. CASE gState' = "HOST_ABORT_STATE" /\ mscState' \in {"none", "failed"} /\ UNCHANGED pipes
    BY <2>1, <2>2, <2>3 DEF Tidy, TidyPool, Detached, InClass, ClassOpen
  <2>4. CASE gState' = "HOST_CLASS_REQUEST" /\ Alloc(mscOut', mscIn')
    <3>1. /\ mscOut' # mscIn' /\ mscOut' \notin pipes /\ mscIn' \notin pipes
          /\ pipes' = pipes \union {mscOut', mscIn'} /\ pipes' \subseteq AllPipes
      BY <2>2, <2>4, AllocReal
    <3> QED BY <2>1, <2>2, <2>4, <3>1 DEF Tidy, TidyPool, ClassPipes, Detached, InClass
  <2> QED BY <1>6, <2>2, <2>3, <2>4 DEF CheckClass
<1>7. CASE ClassRequest \/ ClassInit
  <2>1. /\ gState \in InClass /\ gState' \in InClass
        /\ pc = "wait" /\ UNCHANGED <<pc, pipes, pipeNos, mscState, isDisconnected>>
    BY <1>7, NoFailure
    DEF ClassRequest, ClassInit, CallAt, At, Take, Pending, Apart, portVars, mscVars, InClass
  <2> QED BY <2>1, TidyKept DEF ClassOpen
<1>8. CASE Disconnected
  BY <1>8 DEF Disconnected, Tidy, TidyPool, Detached, InClass, ClassOpen
<1> QED BY <1>1, <1>2, <1>3, <1>4, <1>5, <1>6, <1>7, <1>8 DEF Thread

LEMMA TidyOthers ==
  Tidy /\ NoGiveUp /\ ~QuickReplug /\ (Application \/ Interrupt) => Tidy'
<1> SUFFICES ASSUME Tidy, NoGiveUp, ~QuickReplug, Application \/ Interrupt PROVE Tidy'
  OBVIOUS
<1>1. CASE Application
  <2>1. UNCHANGED <<pc, gState, pipes, pipeNos, isDisconnected>>
    BY <1>1, NoFailure
    DEF Application, AppBegins, AppTransfers, AppClearsStall, AppEnds, Pending, Apart, portVars
  <2>2. ClassOpen' => ClassOpen
    BY <1>1, NoFailure
    DEF Application, AppBegins, AppTransfers, AppClearsStall, AppEnds, AppActs, Pending, Apart,
        mscVars, ClassOpen
  <2> QED BY <2>1, <2>2, TidyKept
<1>2. CASE DisconnectIrq
  <2>1. pipes' \subseteq AllPipes /\ isDisconnected'
    BY <1>2 DEF DisconnectIrq, FreeControlPipes, Tidy
  <2> QED BY <2>1, TidySuspended
<1>3. CASE ConnectIrq \/ PortEnabledIrq \/ PortDisabledIrq \/ DeviceAcks \/ NotifyURBChange
  <2>1. UNCHANGED <<pc, gState, pipes, pipeNos, mscState>>
    BY <1>3
    DEF ConnectIrq, PortEnabledIrq, PortDisabledIrq, DeviceAcks, NotifyURBChange, Untouched,
        mscVars
  <2>2. isDisconnected => isDisconnected'
    BY <1>3 DEF ConnectIrq, PortEnabledIrq, PortDisabledIrq, DeviceAcks, NotifyURBChange, portVars
  <2> QED BY <2>1, <2>2, TidyKept DEF ClassOpen
<1> QED BY <1>1, <1>2, <1>3 DEF Interrupt

(* The pool of four pipes or more does not run dry while no request is     *)
(* given up: every pipe in use is allocated, different from the others and *)
(* not 255, whatever a device refuses and an application does, and however *)
(* often a device is plugged in, if not before the unplugging of the last  *)
(* one was handled.                                                        *)
THEOREM CoreOwnPipes ==
  ASSUME ~QuickReplug, NPipes \in 4..255 PROVE CoreSpec => OwnPipesUnlessGivenUp
<1>1. CoreInit => Tidy
  BY DEF CoreInit, Tidy, TidyPool, Detached, InClass, ClassOpen
<1>2. Tidy /\ NoGiveUp /\ [CoreNext]_coreVars => Tidy'
  <2>1. Tidy /\ NoGiveUp /\ CoreNext => Tidy'
    BY TidyThread, TidyOthers DEF CoreNext
  <2>2. Tidy /\ UNCHANGED coreVars => Tidy'
    BY TidyKept DEF coreVars, portVars, mscVars, ClassOpen
  <2> QED BY <2>1, <2>2
<1>3. Tidy => OwnPipes
  BY DEF Tidy, TidyPool, ClassPipes, OwnPipes, InUse, ControlOpen, Detached, InClass
<1> QED BY <1>1, <1>2, <1>3, PTL DEF CoreSpec, OwnPipesUnlessGivenUp

----------------------------------------------------------------------------
(* How far an enumeration has come, and the device with it.                *)
Enumerating(steps) == gState = "HOST_ENUMERATION" /\ enumState \in steps
DeviceAt(addr, states) == address = addr /\ dev \in states

FirstSteps == {"ENUM_IDLE", "ENUM_GET_FULL_DEV_DESC"}
Fresh ==
  \/ gState = "HOST_DEV_WAIT_FOR_ATTACHMENT" /\ pc = "wait"
  \/ gState = "HOST_DEV_ATTACHED"
  \/ Enumerating(FirstSteps)
Addressed ==
  \/ Enumerating(EnumStates \ (FirstSteps \union {"ENUM_SET_ADDR"}))
  \/ gState = "HOST_INPUT"
Configured ==
  gState \in {"HOST_SET_WAKEUP_FEATURE", "HOST_CHECK_CLASS", "HOST_CLASS_REQUEST",
              "HOST_CLASS"}

(* An enumeration begins at its first step; a device that was asked for an *)
(* address or a configuration has it when the request can end well.        *)
Standing ==
  /\ gState \in {"HOST_IDLE", "HOST_DEV_WAIT_FOR_ATTACHMENT", "HOST_DEV_ATTACHED"} =>
       enumState = "ENUM_IDLE"
  /\ Fresh => DeviceAt(0, {"default"})
  /\ Enumerating({"ENUM_SET_ADDR"}) => DeviceAt(0, {"default", "addressed"})
  /\ Addressed => DeviceAt(1, {"addressed"})
  /\ gState = "HOST_SET_CONFIGURATION" => DeviceAt(1, {"addressed", "configured"})
  /\ Configured => DeviceAt(1, {"configured"})

Completed == busy /\ Ctl!Required(req) \subseteq acked
Obeyed ==
  Completed =>
    /\ req.step = "ENUM_SET_ADDR" => dev = "addressed"
    /\ req.step = "HOST_SET_CONFIGURATION" => dev = "configured"

EnumInv ==
  /\ isConnected <=> dev # "none"
  /\ dev = "none" => isDisconnected \/ gState = "HOST_IDLE"
  /\ ~isDisconnected => Standing /\ Obeyed

(* A call of USBH_CtlReq completes nothing by itself, and fails only with  *)
(* no attempt left.                                                        *)
LEMMA CtlReqCompletes ==
  ASSUME failures < MaxErrorCount, failures \in 0..MaxErrorCount,
         NEW step, NEW status, NEW n, CtlReq(step, status, n)
  PROVE  /\ status # "FAIL"
         /\ status = "OK" => Completed
         /\ Completed' => Completed /\ req' = req
<1>1. CASE status = "BUSY" /\ Ctl!Begin
  <2>1. "SETUP" \in Ctl!Required(req') /\ acked' = {}
    BY <1>1 DEF Ctl!Begin, Ctl!Required
  <2> QED BY <1>1, <2>1 DEF Completed
<1>2. CASE status = "BUSY" /\ UNCHANGED ctlVars
  BY <1>2 DEF ctlVars, Completed
<1>3. CASE status = "BUSY" /\ Ctl!TryAgain
  BY <1>3 DEF Ctl!TryAgain, Ctl!End, Completed
<1>4. CASE status = "OK" /\ Ctl!Succeed
  BY <1>4 DEF Ctl!Succeed, Ctl!End, Completed
<1>5. CASE status = "NOT_SUPPORTED" /\ Ctl!Refuse
  BY <1>5 DEF Ctl!Refuse, Ctl!End, Completed
<1>6. ~Ctl!GiveUp
  BY CoreAssumption DEF Ctl!GiveUp
<1> QED BY <1>1, <1>2, <1>3, <1>4, <1>5, <1>6 DEF CtlReq

LEMMA CallCompletes ==
  ASSUME CoreInv, failures < MaxErrorCount,
         NEW state, NEW status, NEW more, CallAt(state, status, more)
  PROVE  /\ gState = state /\ ~isDisconnected /\ status # "FAIL"
         /\ status = "OK" => Completed
         /\ Completed' => Completed /\ req' = req
BY CtlReqCompletes DEF CallAt, At, CoreInv, CoreTypeOK

(* The steps that leave the state machine where it is.                     *)
LEMMA StandingKept ==
  ASSUME EnumInv,
         UNCHANGED <<dev, isConnected, isDisconnected, pc, gState, enumState, address>>,
         Completed' => Completed /\ req' = req
  PROVE  EnumInv'
<1>1. Standing => Standing'
  BY DEF Standing, Fresh, Addressed, Configured, Enumerating, DeviceAt
<1>2. Obeyed => Obeyed'
  BY DEF Obeyed
<1> QED BY <1>1, <1>2 DEF EnumInv

(* The steps by which a request that ended well, or needed no request,     *)
(* moves the state machine on.                                             *)
LEMMA StandingMoved ==
  ASSUME EnumInv, ~isDisconnected, UNCHANGED <<dev, isConnected, isDisconnected>>,
         gState' = "HOST_IDLE" \/ dev # "none",
         ~busy', Standing'
  PROVE  EnumInv'
BY DEF EnumInv, Obeyed, Completed

LEMMA StandingIdle ==
  CoreInv /\ EnumInv /\ (IdleEmpty \/ IdleConnected \/ ResetPort) => EnumInv'
<1> SUFFICES ASSUME CoreInv, EnumInv, IdleEmpty \/ IdleConnected \/ ResetPort PROVE EnumInv'
  OBVIOUS
<1>1. CASE IdleEmpty
  BY <1>1, StandingKept
  DEF IdleEmpty, Pending, Apart, portVars, enumVars, ctlVars, Completed
<1>2. CASE IdleConnected
  <2>1. /\ gState = "HOST_IDLE" /\ ~isDisconnected /\ isConnected
        /\ gState' = "HOST_DEV_WAIT_FOR_ATTACHMENT" /\ pc' = "settle"
        /\ UNCHANGED <<dev, isConnected, isDisconnected, enumState, busy>>
    BY <1>2 DEF IdleConnected, At, portVars, enumVars, ctlVars
  <2>2. ~busy' /\ dev # "none"
    BY <2>1, Quiet DEF EnumInv
  <2>3. enumState' = "ENUM_IDLE"
    BY <2>1 DEF EnumInv, Standing
  <2>4. Standing'
    BY <2>1, <2>3 DEF Standing, Fresh, Addressed, Configured, Enumerating
  <2> QED BY <2>1, <2>2, <2>4, StandingMoved
<1>3. CASE ResetPort
  <2>1. /\ gState = "HOST_DEV_WAIT_FOR_ATTACHMENT" /\ pc' = "wait" /\ address' = 0
        /\ UNCHANGED <<isConnected, isDisconnected, gState, enumState, busy>>
        /\ dev' = IF dev = "none" THEN "none" ELSE "default"
    BY <1>3 DEF ResetPort, CoreInv, Sleeping, ctlVars
  <2>2. ~busy'
    BY <2>1, Quiet
  <2>3. ~isDisconnected => dev' = "default" /\ enumState' = "ENUM_IDLE"
    BY <2>1 DEF EnumInv, Standing
  <2>4. ~isDisconnected' => Standing'
    BY <2>1, <2>3 DEF Standing, Fresh, Addressed, Configured, Enumerating, DeviceAt
  <2> QED BY <2>1, <2>2, <2>4 DEF EnumInv, Obeyed, Completed
<1> QED BY <1>1, <1>2, <1>3

LEMMA StandingAttach ==
  CoreInv /\ EnumInv /\ (WaitForAttachment \/ AttachedUser \/ AttachedOpen) => EnumInv'
<1> SUFFICES ASSUME CoreInv, EnumInv, WaitForAttachment \/ AttachedUser \/ AttachedOpen
             PROVE  EnumInv'
  OBVIOUS
<1>1. /\ gState \in {"HOST_DEV_WAIT_FOR_ATTACHMENT", "HOST_DEV_ATTACHED"}
      /\ UNCHANGED <<dev, isConnected, isDisconnected, enumState, address, busy>>
      /\ WaitForAttachment => pc = "wait"
  BY DEF WaitForAttachment, AttachedUser, AttachedOpen, At, Apart, Take, portVars, enumVars,
         ctlVars, CoreInv, Sleeping
<1>2. gState' \in {"HOST_IDLE", "HOST_DEV_WAIT_FOR_ATTACHMENT", "HOST_DEV_ATTACHED",
                   "HOST_ENUMERATION", "HOST_ABORT_STATE"}
  BY <1>1 DEF WaitForAttachment, AttachedUser, AttachedOpen
<1>3. ~busy'
  BY <1>1, Quiet
<1>4. ~isDisconnected => enumState = "ENUM_IDLE" /\ DeviceAt(0, {"default"})
  BY <1>1 DEF WaitForAttachment, AttachedUser, AttachedOpen, At, EnumInv, Standing, Fresh,
              CoreInv, Sleeping
<1>5. ~isDisconnected' => Standing'
  BY <1>1, <1>2, <1>4
  DEF Standing, Fresh, FirstSteps, Addressed, Configured, Enumerating, DeviceAt
<1> QED BY <1>1, <1>3, <1>4, <1>5 DEF EnumInv, Obeyed, Completed, DeviceAt

LEMMA StandingEnumeration ==
  CoreInv /\ EnumInv /\ failures < MaxErrorCount /\ Enumeration => EnumInv'
<1> SUFFICES ASSUME CoreInv, EnumInv, failures < MaxErrorCount, Enumeration PROVE EnumInv'
  OBVIOUS
<1>0. Apart => UNCHANGED <<dev, isConnected, isDisconnected, pc>>
  BY DEF Apart, portVars
<1>1. CASE EnumBusy
  BY <1>1, CallCompletes, StandingKept
  DEF EnumBusy, EnumCall, Pending, Apart, portVars, enumVars
<1>2. CASE EnumGiveUp
  BY <1>2, CallCompletes DEF EnumGiveUp, EnumCall
<1>3. CASE EnumDescriptor
  <2>1. /\ gState = "HOST_ENUMERATION" /\ ~isDisconnected /\ ~busy'
        /\ UNCHANGED <<gState, address>> /\ enumState \in DescriptorSteps
        /\ enumState' = NextStep[enumState] /\ Apart
    BY <1>3, CallStep, CallCompletes DEF EnumDescriptor, EnumCall, EnumNext
  <2>2. \/ enumState \in FirstSteps /\ enumState' \in FirstSteps \union {"ENUM_SET_ADDR"}
        \/ /\ enumState \in {"ENUM_GET_CFG_DESC", "ENUM_GET_FULL_CFG_DESC"}
           /\ enumState' \in {"ENUM_GET_FULL_CFG_DESC", "ENUM_GET_MFC_STRING_DESC"}
    BY <2>1 DEF NextStep, FirstSteps
  <2>3. Standing'
    BY <1>0, <2>1, <2>2
    DEF EnumInv, Standing, Fresh, FirstSteps, Addressed, Configured, Enumerating, DeviceAt
  <2> QED BY <1>0, <2>1, <2>3, StandingMoved DEF EnumInv
<1>4. CASE EnumDescriptorRefused
  <2>1. /\ gState = "HOST_ENUMERATION" /\ ~isDisconnected /\ ~busy' /\ Apart
        /\ \/ gState' = "HOST_ABORT_STATE"
           \/ gState' = "HOST_IDLE" /\ enumState' = "ENUM_IDLE"
    BY <1>4, CallStep, CallCompletes DEF EnumDescriptorRefused, EnumCall
  <2>2. Standing'
    BY <2>1 DEF Standing, Fresh, Addressed, Configured, Enumerating
  <2> QED BY <1>0, <2>1, <2>2, StandingMoved DEF EnumInv
<1>5. CASE EnumSetAddress
  <2>1. /\ gState = "HOST_ENUMERATION" /\ ~isDisconnected /\ ~busy' /\ Completed /\ Apart
        /\ UNCHANGED gState /\ enumState = "ENUM_SET_ADDR" /\ address' = 1
        /\ enumState' = NextStep[enumState]
    BY <1>5, CallStep, CallCompletes DEF EnumSetAddress, EnumCall, EnumNext
  <2>2. enumState' = "ENUM_GET_CFG_DESC"
    BY <2>1 DEF NextStep
  <2>3. dev = "addressed"
    BY <2>1
    DEF EnumInv, Obeyed, Completed, CoreInv, InStep, CurrentStep, Request
  <2>4. Standing'
    BY <1>0, <2>1, <2>2, <2>3
    DEF Standing, Fresh, FirstSteps, Addressed, Configured, Enumerating, DeviceAt
  <2> QED BY <1>0, <2>1, <2>3, <2>4, StandingMoved
<1>6. CASE EnumSetAddressRefused
  <2>1. /\ gState = "HOST_ENUMERATION" /\ ~isDisconnected /\ ~busy' /\ Apart
        /\ gState' = "HOST_ABORT_STATE"
    BY <1>6, CallStep, CallCompletes DEF EnumSetAddressRefused, EnumCall
  <2>2. Standing'
    BY <2>1 DEF Standing, Fresh, Addressed, Configured, Enumerating
  <2> QED BY <1>0, <2>1, <2>2, StandingMoved DEF EnumInv
<1>7. CASE EnumString \/ EnumLastString
  <2>1. PICK more \in 0..1 : StringDone(more)
    BY <1>7 DEF EnumString, EnumLastString
  <2>2. gState = "HOST_ENUMERATION" /\ ~isDisconnected /\ ~busy'
    BY <2>1, CallStep, CallCompletes DEF StringDone, EnumCall, At, ctlVars
  <2>3. Apart /\ enumState \in StringSteps /\ UNCHANGED address
    BY <1>7 DEF EnumString, EnumLastString, enumVars
  <2>4. Addressed /\ dev # "none"
    BY <2>2, <2>3 DEF EnumInv, Addressed, Enumerating, FirstSteps
  <2>5. \/ /\ gState' = "HOST_ENUMERATION"
           /\ enumState' \in {"ENUM_GET_PRODUCT_STRING_DESC", "ENUM_GET_SERIALNUM_STRING_DESC"}
        \/ gState' \in {"HOST_SET_CONFIGURATION", "HOST_INPUT"}
    BY <1>7, <2>2 DEF EnumString, EnumLastString, EnumNext, NextStep
  <2>6. Standing'
    BY <1>0, <2>2, <2>3, <2>4, <2>5
    DEF EnumInv, Standing, Fresh, FirstSteps, Addressed, Configured, Enumerating, DeviceAt
  <2> QED BY <1>0, <2>2, <2>3, <2>4, <2>6, StandingMoved
<1> QED BY <1>1, <1>2, <1>3, <1>4, <1>5, <1>6, <1>7 DEF Enumeration

(* From the enumerated device on, each request asks for what the next      *)
(* state takes for granted.                                                *)
LEMMA StandingConfigure ==
  ASSUME CoreInv, EnumInv, failures < MaxErrorCount,
         NEW state \in {"HOST_SET_CONFIGURATION", "HOST_SET_WAKEUP_FEATURE"}, NEW next,
         Configure(state, next),
         next = IF state = "HOST_SET_CONFIGURATION" THEN "HOST_SET_WAKEUP_FEATURE"
                                                    ELSE "HOST_CHECK_CLASS"
  PROVE  EnumInv'
<1>1. CASE \E status \in {"BUSY", "NOT_SUPPORTED"} : CallAt(state, status, 1) /\ Pending
  BY <1>1, CallCompletes, StandingKept DEF Pending, Apart, portVars, enumVars
<1>2. CASE CallAt(state, "OK", 1) /\ gState' = next /\ Apart /\ UNCHANGED <<enumVars, pipes>>
  <2>1. gState = state /\ ~isDisconnected /\ ~busy' /\ Completed
    BY <1>2, CallStep, CallCompletes
  <2>2. UNCHANGED <<dev, isConnected, isDisconnected, address>>
    BY <1>2 DEF Apart, portVars, enumVars
  <2>3. dev = "configured" /\ address = 1
    <3>1. CASE state = "HOST_SET_CONFIGURATION"
      <4>1. req.step = "HOST_SET_CONFIGURATION"
        BY <2>1, <3>1 DEF Completed, CoreInv, InStep, CurrentStep, Request
      <4> QED BY <2>1, <3>1, <4>1 DEF EnumInv, Obeyed, Standing, DeviceAt
    <3>2. CASE state = "HOST_SET_WAKEUP_FEATURE"
      BY <2>1, <3>2 DEF EnumInv, Standing, Configured, DeviceAt
    <3> QED BY <3>1, <3>2
  <2>4. Standing'
    BY <1>2, <2>2, <2>3
    DEF Standing, Fresh, Addressed, Configured, Enumerating, DeviceAt
  <2> QED BY <2>1, <2>2, <2>3, <2>4, StandingMoved
<1>3. ~CallAt(state, "FAIL", 1)
  BY CallCompletes
<1> QED BY <1>1, <1>2, <1>3 DEF Configure

LEMMA StandingSetup ==
  CoreInv /\ EnumInv /\ failures < MaxErrorCount
    /\ (Input \/ SetConfiguration \/ SetWakeupFeature) => EnumInv'
<1> SUFFICES ASSUME CoreInv, EnumInv, failures < MaxErrorCount,
                    Input \/ SetConfiguration \/ SetWakeupFeature
             PROVE  EnumInv'
  OBVIOUS
<1>1. CASE SetConfiguration \/ Configure("HOST_SET_WAKEUP_FEATURE", "HOST_CHECK_CLASS")
  BY <1>1, StandingConfigure DEF SetConfiguration
<1>2. ASSUME NEW state \in {"HOST_INPUT", "HOST_SET_WAKEUP_FEATURE"}, At(state), ~busy,
             gState' = IF state = "HOST_INPUT" THEN "HOST_SET_CONFIGURATION"
                                               ELSE "HOST_CHECK_CLASS",
             Apart, UNCHANGED <<enumVars, ctlVars, pipes>>
      PROVE  EnumInv'
  <2>1. /\ gState = state /\ ~isDisconnected /\ ~busy' /\ dev # "none"
        /\ UNCHANGED <<dev, isConnected, isDisconnected, address>>
    BY <1>2 DEF At, Apart, portVars, enumVars, ctlVars, EnumInv
  <2>2. Standing'
    BY <1>2, <2>1
    DEF EnumInv, Standing, Fresh, Addressed, Configured, Enumerating, DeviceAt
  <2> QED BY <2>1, <2>2, StandingMoved
<1>3. CASE Input
  BY <1>2, <1>3, Quiet DEF Input, At
<1> QED BY <1>1, <1>2, <1>3 DEF SetWakeupFeature

LEMMA StandingClass ==
  CoreInv /\ EnumInv /\ failures < MaxErrorCount
    /\ (CheckClass \/ ClassRequest \/ ClassInit \/ ClassActive \/ ClassIdle) => EnumInv'
<1> SUFFICES ASSUME CoreInv, EnumInv, failures < MaxErrorCount,
                    CheckClass \/ ClassRequest \/ ClassInit \/ ClassActive \/ ClassIdle
             PROVE  EnumInv'
  OBVIOUS
<1>1. CASE CheckClass
  <2>1. /\ gState = "HOST_CHECK_CLASS" /\ ~isDisconnected /\ dev # "none"
        /\ UNCHANGED <<dev, isConnected, isDisconnected, pc, address, busy>>
        /\ gState' \in {"HOST_ABORT_STATE", "HOST_CLASS_REQUEST"}
    BY <1>1 DEF CheckClass, At, portVars, enumVars, ctlVars, EnumInv
  <2>2. ~busy'
    BY <2>1, Quiet
  <2>3. Standing'
    BY <2>1 DEF EnumInv, Standing, Fresh, Addressed, Configured, Enumerating, DeviceAt
  <2> QED BY <2>1, <2>2, <2>3, StandingMoved
<1>2. CASE ClassRequest
  <2>1. CASE CallAt("HOST_CLASS_REQUEST", "BUSY", 1) /\ Pending
    BY <2>1, CallCompletes, StandingKept DEF Pending, Apart, portVars, enumVars
  <2>2. CASE /\ \E status \in {"OK", "NOT_SUPPORTED"} : CallAt("HOST_CLASS_REQUEST", status, 1)
             /\ gState' = "HOST_CLASS" /\ Apart /\ UNCHANGED <<enumVars, pipes>>
    <3>1. gState = "HOST_CLASS_REQUEST" /\ ~isDisconnected /\ ~busy'
      BY <2>2, CallStep, CallCompletes
    <3>2. UNCHANGED <<dev, isConnected, isDisconnected, address>> /\ dev # "none"
      BY <2>2, <3>1 DEF Apart, portVars, enumVars, EnumInv
    <3>3. Standing'
      BY <2>2, <3>1, <3>2
      DEF EnumInv, Standing, Fresh, Addressed, Configured, Enumerating, DeviceAt
    <3> QED BY <3>1, <3>2, <3>3, StandingMoved
  <2>3. ~CallAt("HOST_CLASS_REQUEST", "FAIL", 1)
    BY CallCompletes
  <2> QED BY <1>2, <2>1, <2>2, <2>3 DEF ClassRequest
<1>3. CASE ClassInit
  <2>1. CASE At("HOST_CLASS") /\ ~busy /\ Pending /\ UNCHANGED ctlVars
    BY <2>1, StandingKept DEF Pending, Apart, portVars, enumVars, ctlVars, Completed
  <2>2. CASE \E status \in {"BUSY", "OK", "NOT_SUPPORTED"} :
               CallAt("HOST_CLASS", status, 1) /\ Pending
    BY <2>2, CallCompletes, StandingKept DEF Pending, Apart, portVars, enumVars
  <2>3. ~CallAt("HOST_CLASS", "FAIL", 1)
    BY CallCompletes
  <2> QED BY <1>3, <2>1, <2>2, <2>3 DEF ClassInit
<1>4. CASE ClassActive \/ ClassIdle
  <2>1. UNCHANGED <<portVars, pc, gState, enumVars, ctlVars>>
    BY <1>4 DEF ClassActive, ClassIdle, Pending, Apart
  <2> QED BY <2>1, StandingKept DEF portVars, enumVars, ctlVars, Completed
<1> QED BY <1>1, <1>2, <1>3, <1>4

LEMMA StandingEnd ==
  CoreInv /\ EnumInv /\ (Aborted \/ Disconnected \/ Restart) => EnumInv'
<1>1. CoreInv /\ EnumInv /\ (Aborted \/ Restart) => EnumInv'
  <2> SUFFICES ASSUME CoreInv, EnumInv, Aborted \/ Restart PROVE EnumInv'
    OBVIOUS
  <2>1. CASE Aborted
    BY <2>1, StandingKept DEF Aborted, Pending, Apart, portVars, enumVars, ctlVars, Completed
  <2>2. CASE Restart
    <3>1. gState = "HOST_IDLE" /\ UNCHANGED <<portVars, gState, enumVars, ctlVars>>
      BY <2>2 DEF Restart, CoreInv, Sleeping
    <3>2. Standing => Standing'
      BY <3>1
      DEF enumVars, portVars, Standing, Fresh, Addressed, Configured, Enumerating, DeviceAt
    <3> QED BY <3>1, <3>2 DEF EnumInv, Obeyed, Completed, portVars, ctlVars
  <2> QED BY <2>1, <2>2
<1>2. EnumInv /\ Disconnected => EnumInv'
  BY DEF Disconnected, EnumInv, Standing, Fresh, Addressed, Configured, Enumerating, Obeyed,
         Completed
<1> QED BY <1>1, <1>2

LEMMA StandingApplication ==
  CoreInv /\ EnumInv /\ failures < MaxErrorCount /\ Application => EnumInv'
<1> SUFFICES ASSUME CoreInv, EnumInv, failures < MaxErrorCount, Application PROVE EnumInv'
  OBVIOUS
<1>1. CASE AppBegins \/ AppTransfers \/ AppEnds
  BY <1>1, StandingKept
  DEF AppBegins, AppTransfers, AppEnds, Pending, Apart, portVars, enumVars, ctlVars, Completed
<1>2. CASE AppClearsStall
  <2>1. PICK status \in {"BUSY", "OK", "NOT_SUPPORTED", "FAIL"}, n \in 1..2 :
          CtlReq("HOST_CLASS", status, n) /\ IF status = "FAIL" THEN GivenUp ELSE Pending
    BY <1>2 DEF AppClearsStall
  <2>2. status # "FAIL" /\ (Completed' => Completed /\ req' = req)
    BY <2>1, CtlReqCompletes DEF CoreInv, CoreTypeOK
  <2> QED BY <2>1, <2>2, StandingKept DEF Pending, Apart, portVars, enumVars
<1> QED BY <1>1, <1>2 DEF Application

(* An interrupt: a device comes only when the last disconnection was       *)
(* handled, and changes by the request the state machine is at.            *)
LEMMA StandingInterrupt ==
  CoreInv /\ EnumInv /\ ~QuickReplug /\ Interrupt => EnumInv'
<1> SUFFICES ASSUME CoreInv, EnumInv, ~QuickReplug, Interrupt PROVE EnumInv'
  OBVIOUS
<1>1. CASE ConnectIrq
  <2>1. /\ dev = "none" /\ dev' = "powered" /\ ~isDisconnected
        /\ isConnected' = TRUE /\ UNCHANGED <<gState, enumState, pc, busy>>
    BY <1>1 DEF ConnectIrq, Untouched, enumVars, ctlVars
  <2>2. gState = "HOST_IDLE" /\ enumState = "ENUM_IDLE"
    BY <2>1 DEF EnumInv, Standing
  <2>3. Standing' /\ ~busy'
    BY <2>1, <2>2, Quiet DEF Standing, Fresh, Addressed, Configured, Enumerating
  <2> QED BY <2>1, <2>3 DEF EnumInv, Obeyed, Completed
<1>2. CASE DisconnectIrq
  BY <1>2 DEF DisconnectIrq, EnumInv
<1>3. CASE PortEnabledIrq \/ PortDisabledIrq \/ NotifyURBChange
  <2>1. UNCHANGED <<dev, isConnected, isDisconnected, pc, gState, enumVars, ctlVars>>
    BY <1>3 DEF PortEnabledIrq, PortDisabledIrq, NotifyURBChange, Untouched, portVars
  <2> QED BY <2>1, StandingKept DEF enumVars, ctlVars, Completed
<1>4. CASE DeviceAcks
  <2>1. /\ busy /\ dev # "none" /\ (address = 0 <=> dev = "default")
        /\ UNCHANGED <<isConnected, isDisconnected, pc, gState, enumState, address, busy, req>>
    BY <1>4 DEF DeviceAcks, Reachable, Ctl!DeviceAcks, Untouched, enumVars
  <2>2. req.step = CurrentStep
    BY <2>1 DEF CoreInv, InStep, Request
  <2>3. CASE acked' = {"SETUP"} /\ UNCHANGED dev
    <3>1. ~(Ctl!Required(req') \subseteq acked')
      BY <2>3 DEF Ctl!Required
    <3> QED BY <2>1, <2>3, <3>1, StandingKept DEF Completed
  <2>4. CASE /\ acked' = Ctl!Required(req)
             /\ dev' = CASE req.step = "ENUM_SET_ADDR" -> "addressed"
                         [] req.step = "HOST_SET_CONFIGURATION" /\ dev = "addressed" -> "configured"
                         [] OTHER -> dev
    <3>1. CASE req.step = "ENUM_SET_ADDR"
      <4>1. dev' = "addressed"
        BY <2>4, <3>1, Zenon
      <4>2. Enumerating({"ENUM_SET_ADDR"})
        BY <2>2, <3>1 DEF CurrentStep, Enumerating, CoreInv, CoreTypeOK
      <4>3. ~isDisconnected => Standing'
        BY <2>1, <4>1, <4>2
        DEF EnumInv, Standing, Fresh, FirstSteps, Addressed, Configured, Enumerating, DeviceAt
      <4> QED BY <2>1, <3>1, <4>1, <4>3 DEF EnumInv, Obeyed
    <3>2. CASE req.step = "HOST_SET_CONFIGURATION"
      <4>1. ~isDisconnected =>
              gState = "HOST_SET_CONFIGURATION" /\ dev \in {"addressed", "configured"}
        BY <2>2, <3>2 DEF CurrentStep, CoreInv, CoreTypeOK, EnumInv, Standing, DeviceAt
      <4>2. dev' = IF dev = "addressed" THEN "configured" ELSE dev
        BY <2>4, <3>2, Zenon
      <4>3. ~isDisconnected => Standing' /\ dev' = "configured"
        BY <2>1, <4>1, <4>2
        DEF EnumInv, Standing, Fresh, Addressed, Configured, Enumerating, DeviceAt
      <4> QED BY <2>1, <3>2, <4>2, <4>3 DEF EnumInv, Obeyed
    <3>3. CASE req.step \notin {"ENUM_SET_ADDR", "HOST_SET_CONFIGURATION"}
      <4>1. dev' = dev
        BY <2>4, <3>3, Zenon
      <4>2. Standing => Standing'
        BY <2>1, <4>1 DEF Standing, Fresh, Addressed, Configured, Enumerating, DeviceAt
      <4> QED BY <2>1, <3>3, <4>1, <4>2 DEF EnumInv, Obeyed
    <3> QED BY <3>1, <3>2, <3>3
  <2> QED BY <1>4, <2>3, <2>4, Zenon DEF DeviceAcks
<1> QED BY <1>1, <1>2, <1>3, <1>4 DEF Interrupt

(* While no request has to be given up, whatever a device refuses, loses   *)
(* or delays and however often it is plugged in: a device the host         *)
(* configures has the address the host uses, and a device a class is       *)
(* chosen for has been configured.                                         *)
THEOREM CoreEnumComplete ==
  ASSUME ~AppPersists, ~QuickReplug PROVE CoreSpec => EnumCompleteIfQuiet
<1>1. CoreInit => EnumInv
  BY DEF CoreInit, EnumInv, Standing, Fresh, Addressed, Configured, Enumerating, Obeyed,
         Completed
<1>2. CoreInv /\ EnumInv /\ QuietBus /\ [CoreNext]_coreVars => EnumInv'
  <2>1. CoreInv /\ EnumInv /\ QuietBus /\ CoreNext => EnumInv'
    BY StandingIdle, StandingAttach, StandingEnumeration, StandingSetup, StandingClass,
       StandingEnd, StandingApplication, StandingInterrupt
       DEF CoreNext, Thread, QuietBus, NoGiveUp
  <2>2. EnumInv /\ UNCHANGED coreVars => EnumInv'
    BY StandingKept DEF coreVars, portVars, enumVars, ctlVars, Completed
  <2> QED BY <2>1, <2>2
<1>3. EnumInv => EnumComplete
  BY DEF EnumInv, EnumComplete, Standing, Addressed, Configured, DeviceAt
<1> QED BY <1>1, <1>2, <1>3, CoreInvariant, PTL DEF CoreSpec, EnumCompleteIfQuiet

=============================================================================
