----------------------------- MODULE EthDriver -----------------------------
(***************************************************************************)
(* The Ethernet driver (ethernetif.c) over the HAL (stm32f4xx_hal_eth.c)   *)
(* and its two rings of descriptors, each shared with the controller's DMA *)
(* by an ownership bit.                                                    *)
(*                                                                         *)
(* Four parties run on the one processor.  In order of priority: the       *)
(* interrupt handler; the input thread, woken by a binary semaphore; the   *)
(* lwIP stack, that is the tcpip thread and the tasks that call it, which  *)
(* exclude each other by the core lock; and the link thread, which polls   *)
(* the PHY, takes no core lock and sends frames of its own.  Before it     *)
(* starts, the caller of MX_LWIP_Init plays its part, at the stack's       *)
(* priority.                                                               *)
(*                                                                         *)
(* The lock of the HAL handle is a flag: a function that finds it set      *)
(* answers HAL_BUSY, and the interrupt handler clears it whoever set it.   *)
(*                                                                         *)
(* A buffer holds the longest frame there is, so a frame takes exactly one *)
(* descriptor.  The DMA, the cable and the PHY are external.               *)
(***************************************************************************)
EXTENDS Naturals

CONSTANTS
  RxBufs,   \* ETH_RXBUFNB
  TxBufs    \* ETH_TXBUFNB

ASSUME EthAssumption == RxBufs \in Nat \ {0} /\ TxBufs \in Nat \ {0}

VARIABLES
  rxHeld,   \* receive descriptors without ETH_DMARXDESC_OWN: a frame is in their buffer
  dmaRx,    \* the one the DMA receives into next
  cpuRx,    \* heth.RxDesc
  taken,    \* heth.RxFrameInfos.FSRxDesc
  rxFlag,   \* ETH_DMA_FLAG_R, which raises the interrupt
  irq,      \* "called back" between the callback of HAL_ETH_IRQHandler and its end
  sem,      \* s_xSemaphore
  inPc,     \* the input thread
  core,     \* lock_tcpip_core: who has it
  starved,  \* history: the input thread went to sleep for want of a pbuf or of the HAL
  halLock,  \* heth.Lock
  txOwn,    \* transmit descriptors with ETH_DMATXDESC_OWN: the DMA's
  dmaTx,    \* the one the DMA sends next
  cpuTx,    \* heth.TxDesc
  tbus,     \* the DMA found nothing to send and is suspended (ETH_DMASR_TBUS)
  txPc,     \* of each sender: its place in low_level_output
  desc,     \* of each sender: the descriptor it read
  crossed,  \* history: a sender began while the other was in low_level_output
  cable,    \* PHY_LINKED_STATUS
  linkUp,   \* NETIF_FLAG_LINK_UP
  mac,      \* MAC and DMA are started
  linkPc    \* the link thread

rxVars   == <<rxHeld, dmaRx, cpuRx, taken>>
wakeVars == <<rxFlag, irq, sem, inPc, starved>>
ringVars == <<txOwn, dmaTx, cpuTx, tbus>>
txVars   == <<ringVars, txPc, desc, crossed>>
linkVars == <<cable, linkUp, mac, linkPc>>
ethVars  == <<rxVars, wakeVars, core, halLock, txVars, linkVars>>

RxSlots == 0 .. RxBufs - 1
TxSlots == 0 .. TxBufs - 1
Senders == {"stack", "link"}

InputPlaces  == {"wait", "scan", "copy"}
OutputPlaces == {"idle", "copying", "entered", "owned"}
LinkPlaces   == {"setup", "poll", "reports", "config", "configuring",
                 "start", "starting", "stop", "stopping"}

(* The descriptors are chained in a circle.                                *)
(* Variant: the last descriptor is not chained to the first.               *)
AfterUnchained(i, n) == i + 1

After(i, n) == IF i + 1 = n THEN 0 ELSE i + 1

EthInit ==
  /\ rxHeld = {} /\ dmaRx = 0 /\ cpuRx = 0 /\ taken = 0
  /\ rxFlag = FALSE /\ irq = "idle" /\ sem = TRUE /\ inPc = "wait" /\ starved = FALSE
  /\ core = "free" /\ halLock = FALSE
  /\ txOwn = {} /\ dmaTx = 0 /\ cpuTx = 0 /\ tbus = FALSE
  /\ txPc = [t \in Senders |-> "idle"] /\ desc = [t \in Senders |-> 0] /\ crossed = FALSE
  /\ cable \in BOOLEAN /\ linkUp \in BOOLEAN /\ mac = TRUE /\ linkPc = "setup"

----------------------------------------------------------------------------
(* Who may run: a thread, when nobody above it is ready.                   *)

InputReady ==
  \/ inPc = "wait" /\ sem
  \/ inPc = "scan" /\ core = "free"
  \/ inPc = "copy"

StackRuns == irq = "idle" /\ ~InputReady
LinkRuns  == StackRuns /\ (linkPc = "setup" \/ txPc["stack"] = "idle")
Runs(t)   == IF t = "stack" THEN StackRuns ELSE LinkRuns

----------------------------------------------------------------------------
(* The controller and the interrupt.                                       *)

(* Without a descriptor of its own the DMA drops the frame.  Its resuming  *)
(* needs no help: the next frame makes it look again.                      *)
DmaReceive ==
  /\ mac /\ cable /\ dmaRx \notin rxHeld
  /\ rxHeld' = rxHeld \union {dmaRx} /\ dmaRx' = After(dmaRx, RxBufs) /\ rxFlag' = TRUE
  /\ UNCHANGED <<cpuRx, taken, irq, sem, inPc, starved, core, halLock, txVars, linkVars>>

DmaSend ==
  /\ mac /\ ~tbus /\ dmaTx \in txOwn
  /\ txOwn' = txOwn \ {dmaTx} /\ dmaTx' = After(dmaTx, TxBufs)
  /\ UNCHANGED <<rxVars, wakeVars, core, halLock, cpuTx, tbus, txPc, desc, crossed, linkVars>>

DmaSuspend ==
  /\ mac /\ ~tbus /\ dmaTx \notin txOwn /\ tbus' = TRUE
  /\ UNCHANGED <<rxVars, wakeVars, core, halLock, txOwn, dmaTx, cpuTx, txPc, desc,
                 crossed, linkVars>>

RxCpltCallback ==
  /\ rxFlag /\ irq = "idle" /\ irq' = "called back" /\ sem' = TRUE
  /\ UNCHANGED <<rxVars, rxFlag, inPc, starved, core, halLock, txVars, linkVars>>

(* Variant: the handler leaves the lock alone.                             *)
IrqEndsLocked ==
  /\ irq = "called back" /\ irq' = "idle" /\ rxFlag' = FALSE
  /\ UNCHANGED <<rxVars, sem, inPc, starved, core, halLock, txVars, linkVars>>

(* The rest of HAL_ETH_IRQHandler: a frame that came since the callback    *)
(* loses its flag too.                                                     *)
IrqEnds ==
  /\ irq = "called back" /\ irq' = "idle" /\ rxFlag' = FALSE /\ halLock' = FALSE
  /\ UNCHANGED <<rxVars, sem, inPc, starved, core, txVars, linkVars>>

Interrupt == RxCpltCallback \/ IrqEnds

----------------------------------------------------------------------------
(* The input thread: ethernetif_input, low_level_input.                    *)

Wake ==
  /\ irq = "idle" /\ inPc = "wait" /\ sem
  /\ sem' = FALSE /\ inPc' = "scan" /\ starved' = FALSE
  /\ UNCHANGED <<rxVars, rxFlag, irq, core, halLock, txVars, linkVars>>

(* The scan begins with the core lock, for which the thread may wait.      *)
ScanEmpty ==
  /\ irq = "idle" /\ inPc = "scan" /\ core = "free" /\ (halLock \/ cpuRx \notin rxHeld)
  /\ inPc' = "wait" /\ starved' = halLock
  /\ UNCHANGED <<rxVars, rxFlag, irq, sem, core, halLock, txVars, linkVars>>

ScanFrame ==
  /\ irq = "idle" /\ inPc = "scan" /\ core = "free" /\ ~halLock /\ cpuRx \in rxHeld
  /\ taken' = cpuRx /\ cpuRx' = After(cpuRx, RxBufs) /\ inPc' = "copy" /\ core' = "input"
  /\ UNCHANGED <<rxHeld, dmaRx, rxFlag, irq, sem, starved, halLock, txVars, linkVars>>

(* The frame is copied and its descriptor given back; the stack gets the   *)
(* copy, or it is freed if the stack's mailbox is full.                    *)
(* Variant: a wake-up takes one frame.                                     *)
DeliverOne ==
  /\ irq = "idle" /\ inPc = "copy" /\ inPc' = "wait"
  /\ rxHeld' = rxHeld \ {taken} /\ core' = "free"
  /\ UNCHANGED <<dmaRx, cpuRx, taken, rxFlag, irq, sem, starved, halLock, txVars, linkVars>>

(* Variant: heth.RxDesc, which has moved on, is given back.                *)
DeliverNext ==
  /\ irq = "idle" /\ inPc = "copy" /\ inPc' = "scan"
  /\ rxHeld' = rxHeld \ {cpuRx} /\ core' = "free"
  /\ UNCHANGED <<dmaRx, cpuRx, taken, rxFlag, irq, sem, starved, halLock, txVars, linkVars>>

Deliver ==
  /\ irq = "idle" /\ inPc = "copy" /\ inPc' = "scan"
  /\ rxHeld' = rxHeld \ {taken} /\ core' = "free"
  /\ UNCHANGED <<dmaRx, cpuRx, taken, rxFlag, irq, sem, starved, halLock, txVars, linkVars>>

(* Without a pbuf the frame is dropped, and the loop ends.                 *)
NoPbuf ==
  /\ irq = "idle" /\ inPc = "copy" /\ inPc' = "wait" /\ starved' = TRUE
  /\ rxHeld' = rxHeld \ {taken} /\ core' = "free"
  /\ UNCHANGED <<dmaRx, cpuRx, taken, rxFlag, irq, sem, halLock, txVars, linkVars>>

Input == Wake \/ ScanEmpty \/ ScanFrame \/ Deliver \/ NoPbuf

----------------------------------------------------------------------------
(* Sending: low_level_output and HAL_ETH_TransmitFrame.  The stack has the *)
(* core lock from the beginning to the end.                                *)

MaySend(t) ==
  IF t = "stack" THEN core = "free" ELSE linkPc = "reports" \/ (linkPc = "setup" /\ linkUp)

Leaves(t) ==
  /\ txPc' = [txPc EXCEPT ![t] = "idle"] /\ desc' = [desc EXCEPT ![t] = 0]
  /\ core' = IF t = "stack" THEN "free" ELSE core

(* Variant: the ownership of the descriptor is not looked at.              *)
BeginUnchecked(t) ==
  /\ Runs(t) /\ txPc[t] = "idle" /\ MaySend(t)
  /\ txPc' = [txPc EXCEPT ![t] = "copying"] /\ desc' = [desc EXCEPT ![t] = cpuTx]
  /\ core' = IF t = "stack" THEN "stack" ELSE core
  /\ crossed' = (crossed \/ \E u \in Senders \ {t} : txPc[u] # "idle")
  /\ UNCHANGED <<rxVars, wakeVars, halLock, txOwn, dmaTx, cpuTx, tbus, linkVars>>

(* A descriptor of the DMA's is answered ERR_USE, and nothing changes.     *)
Begin(t) ==
  /\ Runs(t) /\ txPc[t] = "idle" /\ MaySend(t) /\ cpuTx \notin txOwn
  /\ txPc' = [txPc EXCEPT ![t] = "copying"] /\ desc' = [desc EXCEPT ![t] = cpuTx]
  /\ core' = IF t = "stack" THEN "stack" ELSE core
  /\ crossed' = (crossed \/ \E u \in Senders \ {t} : txPc[u] # "idle")
  /\ UNCHANGED <<rxVars, wakeVars, halLock, txOwn, dmaTx, cpuTx, tbus, linkVars>>

(* HAL_BUSY or HAL_ERROR: the frame is lost, and the answer is ERR_OK.     *)
Refused(t) ==
  /\ Runs(t) /\ txPc[t] = "copying" /\ (halLock \/ cpuTx \in txOwn) /\ Leaves(t)
  /\ UNCHANGED <<rxVars, wakeVars, halLock, ringVars, crossed, linkVars>>

Enter(t) ==
  /\ Runs(t) /\ txPc[t] = "copying" /\ ~halLock /\ cpuTx \notin txOwn
  /\ halLock' = TRUE /\ txPc' = [txPc EXCEPT ![t] = "entered"]
  /\ desc' = [desc EXCEPT ![t] = cpuTx]
  /\ UNCHANGED <<rxVars, wakeVars, core, ringVars, crossed, linkVars>>

(* heth->TxDesc is not volatile: the compiler may read it again or keep    *)
(* what it read.                                                           *)
Reads(t) == {desc[t], cpuTx}

HandOver(t) ==
  /\ Runs(t) /\ txPc[t] = "entered" /\ txPc' = [txPc EXCEPT ![t] = "owned"]
  /\ \E d \in Reads(t) : txOwn' = txOwn \union {d} /\ desc' = [desc EXCEPT ![t] = d]
  /\ UNCHANGED <<rxVars, wakeVars, core, halLock, dmaTx, cpuTx, tbus, crossed, linkVars>>

(* Variant: a suspended DMA is left suspended.                             *)
AdvanceUnpolled(t) ==
  /\ Runs(t) /\ txPc[t] = "owned" /\ Leaves(t)
  /\ \E d \in Reads(t) : cpuTx' = After(d, TxBufs)
  /\ halLock' = FALSE
  /\ UNCHANGED <<rxVars, wakeVars, txOwn, dmaTx, tbus, crossed, linkVars>>

(* Variant: heth.TxDesc stays where it is.                                 *)
AdvanceNot(t) ==
  /\ Runs(t) /\ txPc[t] = "owned" /\ Leaves(t)
  /\ tbus' = FALSE /\ halLock' = FALSE
  /\ UNCHANGED <<rxVars, wakeVars, txOwn, dmaTx, cpuTx, crossed, linkVars>>

Advance(t) ==
  /\ Runs(t) /\ txPc[t] = "owned" /\ Leaves(t)
  /\ \E d \in Reads(t) : cpuTx' = After(d, TxBufs)
  /\ tbus' = FALSE /\ halLock' = FALSE
  /\ UNCHANGED <<rxVars, wakeVars, txOwn, dmaTx, crossed, linkVars>>

GoesOn(t) == Refused(t) \/ Enter(t) \/ HandOver(t) \/ Advance(t)

----------------------------------------------------------------------------
(* The link thread: ethernetif_set_link and, from the link callback,       *)
(* ethernetif_update_config.  Before it reconfigures the MAC, a new link   *)
(* is reported to the network; so does dhcp_start in MX_LWIP_Init.         *)

linkRest == <<rxVars, wakeVars, core, txVars, cable>>

PollUp ==
  /\ LinkRuns /\ linkPc = "poll" /\ cable /\ ~linkUp
  /\ linkUp' = TRUE /\ linkPc' = "reports"
  /\ UNCHANGED <<linkRest, halLock, mac>>

PollDown ==
  /\ LinkRuns /\ linkPc = "poll" /\ ~cable /\ linkUp
  /\ linkUp' = FALSE /\ linkPc' = "stop"
  /\ UNCHANGED <<linkRest, halLock, mac>>

Reported ==
  /\ LinkRuns /\ txPc["link"] = "idle"
  /\ \/ linkPc = "setup" /\ linkPc' = "poll"
     \/ linkPc = "reports" /\ linkPc' = "config"
  /\ UNCHANGED <<linkRest, halLock, linkUp, mac>>

(* A call of the HAL: HAL_BUSY is not looked at.                           *)
Calls(place, inside, after) ==
  /\ LinkRuns /\ linkPc = place
  /\ linkPc' = IF halLock THEN after ELSE inside
  /\ halLock' = TRUE
  /\ UNCHANGED <<linkRest, linkUp, mac>>

(* Variant: the function forgets to unlock.                                *)
ReturnsLocked(inside, after, on) ==
  /\ LinkRuns /\ linkPc = inside /\ linkPc' = after /\ mac' = on
  /\ UNCHANGED <<linkRest, halLock, linkUp>>

Returns(inside, after, on) ==
  /\ LinkRuns /\ linkPc = inside /\ linkPc' = after /\ mac' = on /\ halLock' = FALSE
  /\ UNCHANGED <<linkRest, linkUp>>

ConfigMAC == Calls("config", "configuring", "start") \/ Returns("configuring", "start", mac)
Start     == Calls("start", "starting", "poll") \/ Returns("starting", "poll", TRUE)
Stop      == Calls("stop", "stopping", "poll") \/ Returns("stopping", "poll", FALSE)

Link == PollUp \/ PollDown \/ Reported \/ ConfigMAC \/ Start \/ Stop

Plugging ==
  /\ cable' = ~cable
  /\ UNCHANGED <<rxVars, wakeVars, core, halLock, txVars, linkUp, mac, linkPc>>

----------------------------------------------------------------------------
EthNext ==
  \/ DmaReceive \/ DmaSend \/ DmaSuspend \/ Interrupt \/ Input \/ Link \/ Plugging
  \/ \E t \in Senders : Begin(t) \/ GoesOn(t)

EthSpec == EthInit /\ [][EthNext]_ethVars

(* The interrupt and the DMA act; a thread runs whenever the threads above *)
(* it let it run again and again.                                          *)
EthFairness ==
  /\ WF_ethVars(Interrupt) /\ WF_ethVars(DmaSend) /\ WF_ethVars(Input)
  /\ SF_ethVars(Link) /\ \A t \in Senders : SF_ethVars(GoesOn(t))

EthFairSpec == EthSpec /\ EthFairness

----------------------------------------------------------------------------
(* PROPERTIES                                                              *)

(* The variables keep their types; in particular no descriptor pointer     *)
(* leaves its ring.                                                        *)
EthTypeOK ==
  /\ rxHeld \subseteq RxSlots /\ dmaRx \in RxSlots /\ cpuRx \in RxSlots /\ taken \in RxSlots
  /\ rxFlag \in BOOLEAN /\ irq \in {"idle", "called back"} /\ sem \in BOOLEAN
  /\ inPc \in InputPlaces /\ starved \in BOOLEAN
  /\ core \in {"free", "input", "stack"} /\ halLock \in BOOLEAN
  /\ txOwn \subseteq TxSlots /\ dmaTx \in TxSlots /\ cpuTx \in TxSlots /\ tbus \in BOOLEAN
  /\ txPc \in [Senders -> OutputPlaces] /\ desc \in [Senders -> TxSlots]
  /\ crossed \in BOOLEAN
  /\ cable \in BOOLEAN /\ linkUp \in BOOLEAN /\ mac \in BOOLEAN /\ linkPc \in LinkPlaces

(* The slots from a up to and without b, round the circle; with a = b they *)
(* are none or all.                                                        *)
Arc(slots, a, b) == {i \in slots : IF a <= b THEN a <= i /\ i < b ELSE a <= i \/ i < b}

IsArc(held, slots, a, b) == IF a = b THEN held = {} \/ held = slots ELSE held = Arc(slots, a, b)

(* The frames that wait in the receive ring are those between the one the  *)
(* input thread is at and the one the DMA is at: each is read once, in the *)
(* order of arrival, and none is overwritten while it is copied.           *)
RxRing ==
  /\ IsArc(rxHeld, RxSlots, IF inPc = "copy" THEN taken ELSE cpuRx, dmaRx)
  /\ inPc = "copy" => taken \in rxHeld /\ cpuRx = After(taken, RxBufs)

(* When the input thread sleeps and nothing is about to wake it, no frame  *)
(* waits in the ring, unless it went to sleep for want of a pbuf or of the *)
(* HAL (see NeverBusy): the binary semaphore loses no frame.               *)
NoFrameStranded ==
  inPc = "wait" /\ ~sem /\ ~rxFlag /\ ~starved => rxHeld = {}

(* The flag that is the lock of the HAL never makes the link thread skip a *)
(* call whose answer it ignores, and never makes the input thread overlook *)
(* a frame once the set-up is over: until then, dhcp_start may be inside   *)
(* the HAL without the core lock.                                          *)
NeverBusy ==
  /\ irq = "idle" /\ inPc = "scan" /\ core = "free" /\ halLock =>
       linkPc = "setup" /\ txPc["link"] \in {"entered", "owned"}
  /\ linkPc \in {"config", "start", "stop"} /\ txPc["stack"] = "idle" => ~halLock

(* As long as the two senders did not meet in low_level_output: the DMA    *)
(* has the descriptors between the one it is at and the one the CPU is at, *)
(* so frames are sent in order and the two never lose each other;          *)
TxRing ==
  ~crossed =>
    IsArc(txOwn, TxSlots, dmaTx,
          IF \E t \in Senders : txPc[t] = "owned" THEN After(cpuTx, TxBufs) ELSE cpuTx)

(* and a sender copies its frame into a buffer that the DMA does not have, *)
(* and it is this buffer that it hands over.                               *)
SentIntact ==
  ~crossed =>
    \A t \in Senders :
      txPc[t] \in {"copying", "entered"} => desc[t] = cpuTx /\ cpuTx \notin txOwn

(* Between two polls of the link thread, a link that is up has a MAC that  *)
(* runs: no restart of it was skipped.                                     *)
LinkedMac == linkPc = "poll" /\ linkUp => mac

(* ERR_OK without a hand-over: only for a frame of the stack that meets    *)
(* the link thread inside the HAL, or when the two senders met.            *)
OkIsSent ==
  [][\A t \in Senders :
       txPc[t] = "copying" /\ txPc'[t] = "idle" =>
         crossed \/ (t = "stack" /\ linkPc \in {"configuring", "starting", "stopping"})]_ethVars

(* While frames wait in the receive ring the input thread gets to one, the *)
(* oldest by RxRing, unless it went to sleep for want of a pbuf or the HAL.*)
RxServed == rxHeld # {} ~> inPc = "copy" \/ starved

(* The frames that come in leave time for the lowest thread, again and     *)
(* again.                                                                  *)
NotFlooded == []<>LinkRuns

(* While the MAC runs and the senders do not meet, the DMA does not stay   *)
(* suspended with frames to send.                                          *)
TxDrains == NotFlooded /\ <>[]mac /\ []~crossed => []<>(tbus => txOwn = {})

(* A cable that stays plugged in ends with the link up and the MAC on,     *)
(* whatever happened to it before.                                         *)
MacFollows == NotFlooded /\ <>[]cable => <>[](linkUp /\ mac)
=============================================================================
