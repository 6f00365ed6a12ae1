-------------------------- MODULE EthDriver_proofs --------------------------
(***************************************************************************)
(* Proofs about the Ethernet driver, for rings of every size: both rings   *)
(* stay in order, the binary semaphore loses no frame, and the flag that   *)
(* is the lock of the HAL is never in the way but where NeverBusy says.    *)
(***************************************************************************)
EXTENDS EthDriver, TLAPS

InHal(t) == txPc[t] \in {"entered", "owned"}

(* The core lock is the input thread's while it copies and the stack's     *)
(* while it sends; the link thread sends only where it may.                *)
Places ==
  /\ core = "input" <=> inPc = "copy"
  /\ core = "stack" <=> txPc["stack"] # "idle"
  /\ txPc["link"] # "idle" => linkPc \in {"setup", "reports"}
  /\ ~crossed => txPc["stack"] = "idle" \/ txPc["link"] = "idle"

(* Who has set the lock of the HAL.                                        *)
LockHeld ==
  halLock => InHal("stack") \/ InHal("link") \/ linkPc \in {"configuring", "starting", "stopping"}

(* The input thread is up, or about to be.                                 *)
Awake == inPc # "wait" \/ (sem /\ irq = "idle")

LockWhileAwake ==
  Awake /\ halLock => InHal("stack") \/ (linkPc = "setup" /\ InHal("link"))

Flagged == irq = "called back" => sem

(* What a sender has read of the ring, as long as the senders did not meet.*)
SenderKnows ==
  ~crossed => \A t \in Senders : txPc[t] # "idle" => desc[t] = cpuTx

LinkKnown ==
  /\ linkPc = "setup" => mac
  /\ linkPc \in {"stop", "stopping"} => ~linkUp

RxInv   == RxRing /\ Flagged /\ NoFrameStranded
LockInv == Places /\ LockHeld /\ LockWhileAwake
TxInv   == TxRing /\ SentIntact /\ SenderKnows
LinkInv == LinkKnown /\ LinkedMac

EthInv == EthTypeOK /\ RxInv /\ LockInv /\ TxInv /\ LinkInv

----------------------------------------------------------------------------
(* Arcs of a ring.                                                         *)

LEMMA AfterIn ==
  ASSUME NEW n \in Nat \ {0}, NEW i \in 0 .. n - 1
  PROVE  After(i, n) \in 0 .. n - 1
BY DEF After

(* An arc is empty or contains its first slot.                             *)
LEMMA ArcFirst ==
  ASSUME NEW n \in Nat \ {0}, NEW a \in 0 .. n - 1, NEW b \in 0 .. n - 1, NEW h,
         IsArc(h, 0 .. n - 1, a, b)
  PROVE  h = {} \/ a \in h
<1>1. CASE a = b
  BY <1>1 DEF IsArc
<1>2. CASE a # b
  BY <1>2 DEF IsArc, Arc
<1>3. QED
  BY <1>1, <1>2

LEMMA ArcAdd ==
  ASSUME NEW n \in Nat \ {0}, NEW a \in 0 .. n - 1, NEW b \in 0 .. n - 1, NEW h,
         IsArc(h, 0 .. n - 1, a, b), b \notin h
  PROVE  IsArc(h \union {b}, 0 .. n - 1, a, After(b, n))
<1> DEFINE S == 0 .. n - 1
<1>1. CASE a = b
  <2>1. h = {}
    BY <1>1 DEF IsArc
  <2>2. CASE n = 1
    <3>1. S = {b} /\ After(b, n) = a
      BY <1>1, <2>2 DEF After
    <3>2. QED
      BY <2>1, <3>1 DEF IsArc
  <2>3. CASE n # 1
    <3>1. After(b, n) # a
      BY <1>1, <2>3 DEF After
    <3>2. Arc(S, a, After(b, n)) = {b}
      BY <1>1, <2>3 DEF After, Arc
    <3>3. QED
      BY <2>1, <3>1, <3>2 DEF IsArc
  <2>4. QED
    BY <2>2, <2>3
<1>2. CASE a # b
  <2>1. h = Arc(S, a, b)
    BY <1>2 DEF IsArc
  <2>2. CASE After(b, n) = a
    <3>1. h \union {b} = S
      BY <1>2, <2>1, <2>2 DEF After, Arc
    <3>2. QED
      BY <2>2, <3>1 DEF IsArc
  <2>3. CASE After(b, n) # a
    <3>1. h \union {b} = Arc(S, a, After(b, n))
      BY <1>2, <2>1, <2>3 DEF After, Arc
    <3>2. QED
      BY <2>3, <3>1 DEF IsArc
  <2>4. QED
    BY <2>2, <2>3
<1>3. QED
  BY <1>1, <1>2

LEMMA ArcDrop ==
  ASSUME NEW n \in Nat \ {0}, NEW a \in 0 .. n - 1, NEW b \in 0 .. n - 1, NEW h,
         IsArc(h, 0 .. n - 1, a, b), a \in h
  PROVE  IsArc(h \ {a}, 0 .. n - 1, After(a, n), b)
<1> DEFINE S == 0 .. n - 1
<1>1. CASE a = b
  <2>1. h = S
    BY <1>1 DEF IsArc
  <2>2. CASE n = 1
    <3>1. S = {a} /\ After(a, n) = b
      BY <1>1, <2>2 DEF After
    <3>2. QED
      BY <2>1, <3>1 DEF IsArc
  <2>3. CASE n # 1
    <3>1. After(a, n) # b
      BY <1>1, <2>3 DEF After
    <3>2. Arc(S, After(a, n), b) = S \ {a}
      BY <1>1, <2>3 DEF After, Arc
    <3>3. QED
      BY <2>1, <3>1, <3>2 DEF IsArc
  <2>4. QED
    BY <2>2, <2>3
<1>2. CASE a # b
  <2>1. h = Arc(S, a, b)
    BY <1>2 DEF IsArc
  <2>2. CASE After(a, n) = b
    <3>1. h \ {a} = {}
      BY <1>2, <2>1, <2>2 DEF After, Arc
    <3>2. QED
      BY <2>2, <3>1 DEF IsArc
  <2>3. CASE After(a, n) # b
    <3>1. h \ {a} = Arc(S, After(a, n), b)
      BY <1>2, <2>1, <2>3 DEF After, Arc
    <3>2. QED
      BY <2>3, <3>1 DEF IsArc
  <2>4. QED
    BY <2>2, <2>3
<1>3. QED
  BY <1>1, <1>2

----------------------------------------------------------------------------
LEMMA InitInv == EthInit => EthInv
<1> SUFFICES ASSUME EthInit PROVE EthInv
  OBVIOUS
<1> USE DEF EthInit
<1>1. 0 \in RxSlots /\ 0 \in TxSlots
  BY EthAssumption DEF RxSlots, TxSlots
<1>2. EthTypeOK
  <2>1. txPc \in [Senders -> OutputPlaces] /\ desc \in [Senders -> TxSlots]
    BY <1>1 DEF OutputPlaces
  <2>2. sem \in BOOLEAN /\ starved \in BOOLEAN /\ halLock \in BOOLEAN /\ tbus \in BOOLEAN
        /\ crossed \in BOOLEAN /\ mac \in BOOLEAN /\ rxFlag \in BOOLEAN
    OBVIOUS
  <2>3. QED
    BY <1>1, <2>1, <2>2 DEF EthTypeOK, InputPlaces, LinkPlaces
<1>3. RxInv
  BY DEF RxInv, RxRing, IsArc, Flagged, NoFrameStranded
<1>4. LockInv
  BY DEF LockInv, Places, LockHeld, LockWhileAwake, Senders
<1>5. TxInv
  <2>1. \A t \in Senders : txPc[t] = "idle"
    OBVIOUS
  <2>2. QED
    BY <2>1 DEF TxInv, TxRing, IsArc, SentIntact, SenderKnows
<1>6. LinkInv
  BY DEF LinkInv, LinkKnown, LinkedMac
<1>7. QED
  BY <1>2, <1>3, <1>4, <1>5, <1>6 DEF EthInv

----------------------------------------------------------------------------
(* What the steps leave alone.                                             *)

LEMMA RxFrame ==
  ASSUME [EthNext]_ethVars
  PROVE  \/ DmaReceive \/ Interrupt \/ Input
         \/ UNCHANGED <<rxVars, wakeVars>>
BY DEF EthNext, ethVars, DmaSend, DmaSuspend, Link, Plugging, Begin, GoesOn, Refused, Enter,
       HandOver, Advance, PollUp, PollDown, Reported, ConfigMAC, Start, Stop, Calls, Returns, linkRest

LEMMA TxFrame ==
  ASSUME [EthNext]_ethVars
  PROVE  \/ DmaSend \/ DmaSuspend \/ \E t \in Senders : Begin(t) \/ GoesOn(t)
         \/ UNCHANGED txVars
BY DEF EthNext, ethVars, DmaReceive, Interrupt, RxCpltCallback, IrqEnds, Input, Wake, ScanEmpty,
       ScanFrame, Deliver, NoPbuf, Link, Plugging, PollUp, PollDown, Reported, ConfigMAC, Start, Stop,
       Calls, Returns, linkRest

LEMMA LinkFrame ==
  ASSUME [EthNext]_ethVars
  PROVE  \/ Link \/ Plugging
         \/ UNCHANGED linkVars
BY DEF EthNext, ethVars, DmaReceive, DmaSend, DmaSuspend, Interrupt, RxCpltCallback, IrqEnds, Input,
       Wake, ScanEmpty, ScanFrame, Deliver, NoPbuf, Begin, GoesOn, Refused, Enter, HandOver, Advance

(* What the link thread's steps are, and what they need.                   *)
LEMMA LinkSteps ==
  ASSUME Link
  PROVE  /\ LinkRuns /\ UNCHANGED linkRest
         /\ \/ PollUp \/ PollDown \/ Reported
            \/ Calls("config", "configuring", "start") \/ Returns("configuring", "start", mac)
            \/ Calls("start", "starting", "poll") \/ Returns("starting", "poll", TRUE)
            \/ Calls("stop", "stopping", "poll") \/ Returns("stopping", "poll", FALSE)
BY DEF Link, PollUp, PollDown, Reported, ConfigMAC, Start, Stop, Calls, Returns

----------------------------------------------------------------------------
LEMMA RxTypes ==
  ASSUME EthInv, [EthNext]_ethVars
  PROVE  /\ rxHeld' \subseteq RxSlots /\ dmaRx' \in RxSlots /\ cpuRx' \in RxSlots
         /\ taken' \in RxSlots
         /\ rxFlag' \in BOOLEAN /\ irq' \in {"idle", "called back"} /\ sem' \in BOOLEAN
         /\ inPc' \in InputPlaces /\ starved' \in BOOLEAN
<1> USE DEF EthInv, EthTypeOK, wakeVars, rxVars
<1>1. \A i \in RxSlots : After(i, RxBufs) \in RxSlots
  BY EthAssumption, AfterIn DEF RxSlots
<1>2. CASE DmaReceive
  BY <1>1, <1>2 DEF DmaReceive
<1>3. CASE Interrupt
  BY <1>3 DEF Interrupt, RxCpltCallback, IrqEnds
<1>4. CASE Input
  <2>1. CASE Wake
    BY <2>1 DEF Wake, InputPlaces
  <2>2. CASE ScanEmpty
    BY <2>2 DEF ScanEmpty, InputPlaces
  <2>3. CASE ScanFrame
    BY <1>1, <2>3 DEF ScanFrame, InputPlaces
  <2>4. CASE Deliver
    BY <2>4 DEF Deliver, InputPlaces
  <2>5. CASE NoPbuf
    BY <2>5 DEF NoPbuf, InputPlaces
  <2>6. QED
    BY <1>4, <2>1, <2>2, <2>3, <2>4, <2>5 DEF Input
<1>5. CASE UNCHANGED <<rxVars, wakeVars>>
  BY <1>5
<1>6. QED
  BY <1>2, <1>3, <1>4, <1>5, RxFrame

LEMMA RxStep ==
  ASSUME EthInv, [EthNext]_ethVars
  PROVE  RxInv'
<1> USE DEF RxInv, Flagged, NoFrameStranded, wakeVars, rxVars
<1>1. /\ RxRing /\ Flagged /\ NoFrameStranded
      /\ rxHeld \subseteq RxSlots /\ dmaRx \in RxSlots /\ cpuRx \in RxSlots /\ taken \in RxSlots
  BY DEF EthInv, EthTypeOK
<1>2. CASE DmaReceive
  <2>1. RxRing'
    BY <1>1, <1>2, EthAssumption, ArcAdd DEF DmaReceive, RxRing, RxSlots
  <2>2. QED
    BY <1>1, <1>2, <2>1 DEF DmaReceive
<1>3. CASE Interrupt
  BY <1>1, <1>3 DEF Interrupt, RxCpltCallback, IrqEnds, RxRing
<1>4. CASE Input
  <2>1. CASE Wake
    BY <1>1, <2>1 DEF Wake, RxRing
  <2>2. CASE ScanEmpty
    <3>1. RxRing'
      BY <1>1, <2>2 DEF ScanEmpty, RxRing
    <3>2. ~halLock => rxHeld = {}
      BY <1>1, <2>2, EthAssumption, ArcFirst DEF ScanEmpty, RxRing, RxSlots
    <3>3. QED
      BY <1>1, <2>2, <3>1, <3>2 DEF ScanEmpty
  <2>3. CASE ScanFrame
    BY <1>1, <2>3 DEF ScanFrame, RxRing
  <2>4. CASE Deliver \/ NoPbuf
    <3>1. IsArc(rxHeld', RxSlots, cpuRx, dmaRx)
      BY <1>1, <2>4, EthAssumption, ArcDrop DEF Deliver, NoPbuf, RxRing, RxSlots
    <3>2. QED
      BY <1>1, <2>4, <3>1 DEF Deliver, NoPbuf, RxRing
  <2>5. QED
    BY <1>4, <2>1, <2>2, <2>3, <2>4 DEF Input
<1>5. CASE UNCHANGED <<rxVars, wakeVars>>
  BY <1>1, <1>5 DEF RxRing
<1>6. QED
  BY <1>2, <1>3, <1>4, <1>5, RxFrame

----------------------------------------------------------------------------
LEMMA TxTypes ==
  ASSUME EthInv, [EthNext]_ethVars
  PROVE  /\ txOwn' \subseteq TxSlots /\ dmaTx' \in TxSlots /\ cpuTx' \in TxSlots /\ tbus' \in BOOLEAN
         /\ txPc' \in [Senders -> OutputPlaces] /\ desc' \in [Senders -> TxSlots]
         /\ crossed' \in BOOLEAN
<1>0. /\ txOwn \subseteq TxSlots /\ dmaTx \in TxSlots /\ cpuTx \in TxSlots /\ tbus \in BOOLEAN
      /\ txPc \in [Senders -> OutputPlaces] /\ desc \in [Senders -> TxSlots] /\ crossed \in BOOLEAN
  BY DEF EthInv, EthTypeOK
<1>1. 0 \in TxSlots /\ \A i \in TxSlots : After(i, TxBufs) \in TxSlots
  BY EthAssumption, AfterIn DEF TxSlots
<1>2. CASE DmaSend \/ DmaSuspend
  BY <1>0, <1>1, <1>2 DEF DmaSend, DmaSuspend
<1>3. ASSUME NEW t \in Senders, Begin(t) \/ GoesOn(t)
      PROVE  /\ txOwn' \subseteq TxSlots /\ dmaTx' \in TxSlots /\ cpuTx' \in TxSlots
             /\ tbus' \in BOOLEAN
             /\ txPc' \in [Senders -> OutputPlaces] /\ desc' \in [Senders -> TxSlots]
             /\ crossed' \in BOOLEAN
  <2>1. CASE Begin(t)
    <3>1. crossed' \in BOOLEAN
      BY <2>1 DEF Begin
    <3>2. QED
      BY <1>0, <2>1, <3>1 DEF Begin, OutputPlaces
  <2>2. CASE Refused(t)
    BY <1>0, <1>1, <2>2 DEF Refused, Leaves, ringVars, OutputPlaces
  <2>3. CASE Enter(t)
    BY <1>0, <2>3 DEF Enter, ringVars, OutputPlaces
  <2>4. CASE HandOver(t)
    BY <1>0, <2>4 DEF HandOver, Reads, OutputPlaces
  <2>5. CASE Advance(t)
    BY <1>0, <1>1, <2>5 DEF Advance, Leaves, Reads, OutputPlaces
  <2>6. QED
    BY <1>3, <2>1, <2>2, <2>3, <2>4, <2>5 DEF GoesOn
<1>4. CASE UNCHANGED txVars
  BY <1>0, <1>4 DEF txVars, ringVars
<1>5. QED
  BY <1>2, <1>3, <1>4, TxFrame

(* While the senders have not met, one that prepares or hands over a frame *)
(* is alone in the ring.                                                   *)
LEMMA TxStep ==
  ASSUME EthInv, [EthNext]_ethVars
  PROVE  TxInv'
<1>0. /\ TxRing /\ SentIntact /\ SenderKnows /\ Places
      /\ txOwn \subseteq TxSlots /\ dmaTx \in TxSlots /\ cpuTx \in TxSlots
      /\ txPc \in [Senders -> OutputPlaces] /\ desc \in [Senders -> TxSlots]
  BY DEF EthInv, EthTypeOK, TxInv, LockInv
<1>1. crossed => crossed'
  <2>1. CASE \E t \in Senders : Begin(t) \/ GoesOn(t)
    BY <2>1 DEF Begin, GoesOn, Refused, Enter, HandOver, Advance
  <2>2. QED
    BY <2>1, TxFrame DEF DmaSend, DmaSuspend, txVars
<1>2. CASE crossed'
  BY <1>2 DEF TxInv, TxRing, SentIntact, SenderKnows
<1>3. CASE ~crossed'
  <2>1. /\ ~crossed
        /\ IsArc(txOwn, TxSlots, dmaTx,
                 IF \E t \in Senders : txPc[t] = "owned" THEN After(cpuTx, TxBufs) ELSE cpuTx)
        /\ \A t \in Senders : txPc[t] # "idle" => desc[t] = cpuTx
        /\ \A t \in Senders : txPc[t] \in {"copying", "entered"} => cpuTx \notin txOwn
        /\ \A t, u \in Senders : t # u => txPc[t] = "idle" \/ txPc[u] = "idle"
    BY <1>0, <1>1, <1>3 DEF TxRing, SentIntact, SenderKnows, Places, Senders
  <2>2. CASE DmaSend
    <3>1. UNCHANGED <<cpuTx, txPc, desc, crossed>> /\ txOwn' = txOwn \ {dmaTx}
          /\ dmaTx' = After(dmaTx, TxBufs) /\ dmaTx \in txOwn
      BY <2>2 DEF DmaSend
    <3>2. After(cpuTx, TxBufs) \in TxSlots
      BY <1>0, EthAssumption, AfterIn DEF TxSlots
    <3>3. TxRing'
      BY <1>0, <2>1, <3>1, <3>2, EthAssumption, ArcDrop DEF TxRing, TxSlots
    <3>4. QED
      BY <2>1, <3>1, <3>3 DEF TxInv, SentIntact, SenderKnows
  <2>3. CASE DmaSuspend
    BY <2>1, <2>3 DEF DmaSuspend, TxInv, TxRing, SentIntact, SenderKnows
  <2>4. ASSUME NEW t \in Senders, Begin(t) \/ GoesOn(t)
        PROVE  TxInv'
    <3>1. CASE Begin(t)
      <4>1. /\ cpuTx \notin txOwn /\ UNCHANGED <<txOwn, dmaTx, cpuTx>>
            /\ txPc' = [txPc EXCEPT ![t] = "copying"] /\ desc' = [desc EXCEPT ![t] = cpuTx]
            /\ txPc[t] = "idle" /\ \A u \in Senders \ {t} : txPc[u] = "idle"
        BY <1>3, <3>1 DEF Begin
      <4>2. \A u \in Senders : txPc'[u] # "owned" /\ txPc[u] # "owned"
        BY <1>0, <4>1
      <4>3. TxRing'
        BY <2>1, <4>1, <4>2 DEF TxRing
      <4>4. QED
        BY <1>0, <4>1, <4>3 DEF TxInv, SentIntact, SenderKnows
    <3>2. CASE Refused(t)
      <4>1. /\ UNCHANGED <<txOwn, dmaTx, cpuTx>> /\ txPc[t] = "copying"
            /\ txPc' = [txPc EXCEPT ![t] = "idle"] /\ desc' = [desc EXCEPT ![t] = 0]
        BY <3>2 DEF Refused, Leaves, ringVars
      <4>2. \A u \in Senders : txPc'[u] = "idle" /\ txPc[u] # "owned"
        BY <1>0, <2>1, <4>1
      <4>3. QED
        BY <2>1, <4>1, <4>2 DEF TxInv, TxRing, SentIntact, SenderKnows
    <3>3. CASE Enter(t)
      <4>1. /\ UNCHANGED <<txOwn, dmaTx, cpuTx>> /\ txPc[t] = "copying" /\ cpuTx \notin txOwn
            /\ txPc' = [txPc EXCEPT ![t] = "entered"] /\ desc' = [desc EXCEPT ![t] = cpuTx]
        BY <3>3 DEF Enter, ringVars
      <4>2. \A u \in Senders : txPc'[u] # "owned" /\ txPc[u] # "owned"
        BY <1>0, <2>1, <4>1
      <4>3. QED
        BY <1>0, <2>1, <4>1, <4>2 DEF TxInv, TxRing, SentIntact, SenderKnows
    <3>4. CASE HandOver(t)
      <4>1. /\ UNCHANGED <<dmaTx, cpuTx>> /\ txPc[t] = "entered"
            /\ txPc' = [txPc EXCEPT ![t] = "owned"]
            /\ txOwn' = txOwn \union {cpuTx} /\ desc' = [desc EXCEPT ![t] = cpuTx]
        BY <2>1, <3>4 DEF HandOver, Reads
      <4>2. \A u \in Senders : txPc[u] # "owned" /\ (u # t => txPc'[u] = "idle")
        BY <1>0, <2>1, <4>1
      <4>3. txPc'[t] = "owned"
        BY <1>0, <4>1
      <4>4. IsArc(txOwn', TxSlots, dmaTx, After(cpuTx, TxBufs))
        BY <1>0, <2>1, <4>1, <4>2, EthAssumption, ArcAdd DEF TxSlots
      <4>5. TxRing'
        BY <4>1, <4>3, <4>4 DEF TxRing
      <4>6. QED
        BY <1>0, <2>1, <4>1, <4>2, <4>3, <4>5 DEF TxInv, SentIntact, SenderKnows
    <3>5. CASE Advance(t)
      <4>1. /\ UNCHANGED <<txOwn, dmaTx>> /\ txPc[t] = "owned" /\ cpuTx' = After(cpuTx, TxBufs)
            /\ txPc' = [txPc EXCEPT ![t] = "idle"]
        BY <2>1, <3>5 DEF Advance, Leaves, Reads
      <4>2. \A u \in Senders : txPc'[u] = "idle"
        BY <1>0, <2>1, <4>1
      <4>3. QED
        BY <2>1, <4>1, <4>2 DEF TxInv, TxRing, SentIntact, SenderKnows
    <3>6. QED
      BY <2>4, <3>1, <3>2, <3>3, <3>4, <3>5 DEF GoesOn
  <2>5. CASE UNCHANGED txVars
    BY <2>1, <2>5 DEF txVars, ringVars, TxInv, TxRing, SentIntact, SenderKnows
  <2>6. QED
    BY <2>2, <2>3, <2>4, <2>5, TxFrame
<1>4. QED
  BY <1>2, <1>3

----------------------------------------------------------------------------
(* The link thread and the set-up do not run under a thread that is up.    *)
LEMMA LinkAlone ==
  ASSUME EthInv, LinkRuns
  PROVE  /\ Awake => core = "stack" /\ linkPc = "setup"
         /\ linkPc # "setup" => txPc["stack"] = "idle" /\ ~Awake
<1>1. inPc \in InputPlaces /\ Places
  BY DEF EthInv, EthTypeOK, LockInv
<1>2. Awake => inPc = "scan" /\ core # "free"
  BY <1>1 DEF LinkRuns, StackRuns, InputReady, Awake, InputPlaces
<1>3. Awake => core = "stack"
  BY <1>1, <1>2 DEF Places, EthInv, EthTypeOK
<1>4. QED
  BY <1>1, <1>3 DEF LinkRuns, Places

(* Nobody is in the HAL when the link thread calls it.                     *)
LEMMA LinkFree ==
  ASSUME EthInv, txPc["stack"] = "idle", linkPc \in {"poll", "config", "start", "stop"}
  PROVE  ~halLock
<1>1. Places /\ LockHeld
  BY DEF EthInv, LockInv
<1>2. txPc["link"] = "idle"
  BY <1>1 DEF Places
<1>3. QED
  BY <1>1, <1>2 DEF LockHeld, InHal

LEMMA LockTypes ==
  ASSUME EthInv, [EthNext]_ethVars
  PROVE  core' \in {"free", "input", "stack"} /\ halLock' \in BOOLEAN
<1>0. core \in {"free", "input", "stack"} /\ halLock \in BOOLEAN
  BY DEF EthInv, EthTypeOK
<1>1. CASE EthNext
  <2>1. CASE DmaReceive \/ DmaSend \/ DmaSuspend \/ Interrupt \/ Input \/ Plugging
    BY <1>0, <2>1 DEF DmaReceive, DmaSend, DmaSuspend, Interrupt, RxCpltCallback, IrqEnds, Input, Wake,
       ScanEmpty, ScanFrame, Deliver, NoPbuf, Plugging
  <2>2. CASE Link
    BY <1>0, <2>2, LinkSteps DEF PollUp, PollDown, Reported, Calls, Returns, linkRest
  <2>3. ASSUME NEW t \in Senders, Begin(t) \/ GoesOn(t)
        PROVE  core' \in {"free", "input", "stack"} /\ halLock' \in BOOLEAN
    BY <1>0, <2>3 DEF Begin, GoesOn, Refused, Enter, HandOver, Advance, Leaves
  <2>4. QED
    BY <1>1, <2>1, <2>2, <2>3 DEF EthNext
<1>2. CASE UNCHANGED ethVars
  BY <1>0, <1>2 DEF ethVars
<1>3. QED
  BY <1>1, <1>2

LEMMA LockStep ==
  ASSUME EthInv, [EthNext]_ethVars
  PROVE  LockInv'
<1>0. /\ Places /\ LockHeld /\ LockWhileAwake /\ Flagged
      /\ txPc \in [Senders -> OutputPlaces] /\ inPc \in InputPlaces
      /\ core \in {"free", "input", "stack"}
  BY DEF EthInv, EthTypeOK, LockInv, RxInv
<1> USE DEF LockInv, Places, LockHeld, LockWhileAwake, InHal, Awake
<1>1. CASE DmaReceive \/ DmaSend \/ DmaSuspend \/ Plugging
  BY <1>0, <1>1 DEF DmaReceive, DmaSend, DmaSuspend, Plugging, txVars, ringVars, linkVars, wakeVars
<1>2. CASE Interrupt
  <2>1. UNCHANGED <<inPc, core, txPc, crossed, linkPc>>
    BY <1>2 DEF Interrupt, RxCpltCallback, IrqEnds, txVars, linkVars
  <2>2. Places'
    BY <1>0, <2>1
  <2>3. CASE RxCpltCallback
    <3>1. halLock' = halLock /\ irq' = "called back"
      BY <2>3 DEF RxCpltCallback
    <3>2. QED
      BY <1>0, <2>1, <2>2, <3>1
  <2>4. CASE IrqEnds
    <3>1. ~halLock'
      BY <2>4 DEF IrqEnds
    <3>2. QED
      BY <2>2, <3>1
  <2>5. QED
    BY <1>2, <2>3, <2>4 DEF Interrupt
<1>3. CASE Input
  BY <1>0, <1>3 DEF Input, Wake, ScanEmpty, ScanFrame, Deliver, NoPbuf, txVars, linkVars
<1>4. CASE Link
  <2>1. /\ LinkRuns /\ UNCHANGED <<core, inPc, sem, irq, txPc, crossed>>
        /\ Awake => linkPc = "setup" /\ core = "stack"
        /\ linkPc # "setup" => txPc["stack"] = "idle" /\ ~Awake
    BY <1>4, LinkSteps, LinkAlone DEF linkRest, wakeVars, txVars
  <2>2. CASE PollUp \/ PollDown
    <3>1. ~halLock /\ ~halLock'
      BY <2>1, <2>2, LinkFree DEF PollUp, PollDown
    <3>2. QED
      BY <1>0, <2>1, <2>2, <3>1 DEF PollUp, PollDown
  <2>3. CASE Reported
    BY <1>0, <2>1, <2>3 DEF Reported
  <2>4. CASE \/ Calls("config", "configuring", "start") \/ Calls("start", "starting", "poll")
             \/ Calls("stop", "stopping", "poll")
    <3>1. ~halLock
      BY <2>1, <2>4, LinkFree DEF Calls
    <3>2. QED
      BY <1>0, <2>1, <2>4, <3>1 DEF Calls
  <2>5. CASE \/ Returns("configuring", "start", mac) \/ Returns("starting", "poll", TRUE)
             \/ Returns("stopping", "poll", FALSE)
    BY <1>0, <2>1, <2>5 DEF Returns
  <2>6. QED
    BY <1>4, <2>2, <2>3, <2>4, <2>5, LinkSteps
<1>5. ASSUME NEW t \in Senders, Begin(t) \/ GoesOn(t)
      PROVE  LockInv'
  <2>1. /\ UNCHANGED <<linkPc, inPc, sem, irq>> /\ Runs(t)
        /\ "stack" \in Senders /\ "link" \in Senders /\ t \in {"stack", "link"}
    BY <1>5 DEF Begin, GoesOn, Refused, Enter, HandOver, Advance, linkVars, wakeVars, Senders
  <2>2. t = "link" => /\ Awake => linkPc = "setup"
                      /\ linkPc # "setup" => ~Awake /\ txPc["stack"] = "idle"
    BY <2>1, LinkAlone DEF Runs
  <2>3. CASE Begin(t)
    BY <1>0, <2>1, <2>2, <2>3 DEF Begin, MaySend, Runs, StackRuns, InputReady, InputPlaces
  <2>4. CASE Refused(t)
    BY <1>0, <2>1, <2>2, <2>4 DEF Refused, Leaves
  <2>5. CASE Enter(t)
    BY <1>0, <2>1, <2>2, <2>5 DEF Enter
  <2>6. CASE HandOver(t)
    BY <1>0, <2>1, <2>2, <2>6 DEF HandOver
  <2>7. CASE Advance(t)
    BY <1>0, <2>1, <2>2, <2>7 DEF Advance, Leaves
  <2>8. QED
    BY <1>5, <2>3, <2>4, <2>5, <2>6, <2>7 DEF GoesOn
<1>6. CASE UNCHANGED ethVars
  BY <1>0, <1>6 DEF ethVars, txVars, linkVars, wakeVars
<1>7. QED
  BY <1>1, <1>2, <1>3, <1>4, <1>5, <1>6 DEF EthNext

----------------------------------------------------------------------------
LEMMA LinkStep ==
  ASSUME EthInv, [EthNext]_ethVars
  PROVE  /\ LinkInv'
         /\ cable' \in BOOLEAN /\ linkUp' \in BOOLEAN /\ mac' \in BOOLEAN /\ linkPc' \in LinkPlaces
<1>0. /\ LinkKnown /\ LinkedMac
      /\ cable \in BOOLEAN /\ linkUp \in BOOLEAN /\ mac \in BOOLEAN /\ linkPc \in LinkPlaces
  BY DEF EthInv, EthTypeOK, LinkInv
<1> USE DEF LinkInv, LinkKnown, LinkedMac
<1>1. CASE Link
  <2>1. UNCHANGED cable /\ LinkRuns
    BY <1>1, LinkSteps DEF linkRest
  <2>2. CASE PollUp \/ PollDown \/ Reported
    BY <1>0, <2>1, <2>2 DEF PollUp, PollDown, Reported, LinkPlaces
  <2>3. CASE \/ Calls("config", "configuring", "start") \/ Calls("start", "starting", "poll")
             \/ Calls("stop", "stopping", "poll")
    <3>1. ~halLock
      BY <2>1, <2>3, LinkAlone, LinkFree DEF Calls
    <3>2. QED
      BY <1>0, <2>1, <2>3, <3>1 DEF Calls, LinkPlaces
  <2>4. CASE \/ Returns("configuring", "start", mac) \/ Returns("starting", "poll", TRUE)
             \/ Returns("stopping", "poll", FALSE)
    <3>1. CASE Returns("configuring", "start", mac)
      BY <1>0, <2>1, <3>1 DEF Returns, LinkPlaces
    <3>2. CASE Returns("starting", "poll", TRUE)
      BY <1>0, <2>1, <3>2 DEF Returns, LinkPlaces
    <3>3. CASE Returns("stopping", "poll", FALSE)
      BY <1>0, <2>1, <3>3 DEF Returns, LinkPlaces
    <3>4. QED
      BY <2>4, <3>1, <3>2, <3>3
  <2>5. QED
    BY <1>1, <2>2, <2>3, <2>4, LinkSteps
<1>2. CASE Plugging
  BY <1>0, <1>2 DEF Plugging
<1>3. CASE UNCHANGED linkVars
  BY <1>0, <1>3 DEF linkVars
<1>4. QED
  BY <1>1, <1>2, <1>3, LinkFrame

----------------------------------------------------------------------------
(* EthInv is an invariant of the driver.                                   *)
THEOREM EthCorrect == EthSpec => []EthInv
<1>1. EthInit => EthInv
  BY InitInv
<1>2. EthInv /\ [EthNext]_ethVars => EthInv'
  <2> SUFFICES ASSUME EthInv, [EthNext]_ethVars PROVE EthInv'
    OBVIOUS
  <2>1. EthTypeOK'
    BY RxTypes, TxTypes, LockTypes, LinkStep DEF EthTypeOK
  <2>2. QED
    BY <2>1, RxStep, LockStep, TxStep, LinkStep DEF EthInv
<1>3. QED
  BY <1>1, <1>2, PTL DEF EthSpec

(* The variables keep their types, and no descriptor pointer leaves its    *)
(* ring, for rings of every size.                                          *)
THEOREM EthTypeCorrect == EthSpec => []EthTypeOK
<1>1. EthInv => EthTypeOK
  BY DEF EthInv
<1>2. QED
  BY <1>1, EthCorrect, PTL

(* Every received frame is read once, in order, and is not overwritten     *)
(* while it is copied (low_level_input and the DMA), for rings of every    *)
(* size.                                                                   *)
THEOREM EthRxRing == EthSpec => []RxRing
<1>1. EthInv => RxRing
  BY DEF EthInv, RxInv
<1>2. QED
  BY <1>1, EthCorrect, PTL

(* The binary semaphore of ethernetif.c strands no frame, for rings of     *)
(* every size.                                                             *)
THEOREM EthNoFrameStranded == EthSpec => []NoFrameStranded
<1>1. EthInv => NoFrameStranded
  BY DEF EthInv, RxInv
<1>2. QED
  BY <1>1, EthCorrect, PTL

(* The flag that is the lock of the HAL handle is never met set, but by    *)
(* the input thread during the set-up.                                     *)
THEOREM EthNeverBusy == EthSpec => []NeverBusy
<1>1. EthInv => NeverBusy
  <2> SUFFICES ASSUME EthInv PROVE NeverBusy
    OBVIOUS
  <2>1. linkPc \in {"config", "start", "stop"} /\ txPc["stack"] = "idle" => ~halLock
    BY LinkFree
  <2>2. inPc = "scan" /\ core = "free" /\ halLock => linkPc = "setup" /\ InHal("link")
    BY DEF EthInv, LockInv, LockWhileAwake, Awake, Places, InHal
  <2>3. QED
    BY <2>1, <2>2 DEF NeverBusy, InHal
<1>2. QED
  BY <1>1, EthCorrect, PTL

(* As long as low_level_output is not entered twice at a time, the DMA and *)
(* the CPU agree on the transmit ring, for rings of every size,            *)
THEOREM EthTxRing == EthSpec => []TxRing
<1>1. EthInv => TxRing
  BY DEF EthInv, TxInv
<1>2. QED
  BY <1>1, EthCorrect, PTL

(* and a sender copies into the buffer that it hands over, which the DMA   *)
(* does not have.                                                          *)
THEOREM EthSentIntact == EthSpec => []SentIntact
<1>1. EthInv => SentIntact
  BY DEF EthInv, TxInv
<1>2. QED
  BY <1>1, EthCorrect, PTL

(* No restart of the MAC is skipped: between polls, a link that is up has  *)
(* a MAC that runs.                                                        *)
THEOREM EthLinkedMac == EthSpec => []LinkedMac
<1>1. EthInv => LinkedMac
  BY DEF EthInv, LinkInv
<1>2. QED
  BY <1>1, EthCorrect, PTL

(* low_level_output answers ERR_OK for a frame it did not hand over only   *)
(* where OkIsSent says: to the stack, while the link thread is inside the  *)
(* HAL.                                                                    *)
THEOREM EthOkIsSent == EthSpec => OkIsSent
<1> DEFINE A(t) ==
      txPc[t] = "copying" /\ txPc'[t] = "idle" =>
        crossed \/ (t = "stack" /\ linkPc \in {"configuring", "starting", "stopping"})
<1>1. EthInv /\ [EthNext]_ethVars => [\A t \in Senders : A(t)]_ethVars
  <2> SUFFICES ASSUME EthInv, [EthNext]_ethVars, NEW t \in Senders,
                      txPc[t] = "copying", txPc'[t] = "idle", ~crossed
               PROVE  t = "stack" /\ linkPc \in {"configuring", "starting", "stopping"}
    OBVIOUS
  <2>0. /\ Places /\ LockHeld /\ SentIntact /\ txPc \in [Senders -> OutputPlaces]
        /\ t \in {"stack", "link"}
    BY DEF EthInv, EthTypeOK, LockInv, TxInv, Senders
  <2>1. halLock
    <3>1. cpuTx \notin txOwn
      BY <2>0 DEF SentIntact
    <3>2. CASE \E u \in Senders : Begin(u) \/ GoesOn(u)
      <4>1. PICK u \in Senders : Begin(u) \/ GoesOn(u)
        BY <3>2
      <4>2. ~Begin(u)
        BY <2>0 DEF Begin
      <4>3. u = t
        BY <2>0, <4>1, <4>2 DEF GoesOn, Refused, Enter, HandOver, Advance, Leaves
      <4>4. Refused(t)
        BY <2>0, <4>1, <4>2, <4>3 DEF GoesOn, Enter, HandOver, Advance
      <4>5. QED
        BY <3>1, <4>4 DEF Refused
    <3>3. CASE ~\E u \in Senders : Begin(u) \/ GoesOn(u)
      <4>1. txPc' = txPc
        BY <3>3, TxFrame DEF DmaSend, DmaSuspend, txVars
      <4>2. QED
        BY <4>1
    <3>4. QED
      BY <3>2, <3>3
  <2>2. QED
    BY <2>0, <2>1 DEF Places, LockHeld, InHal
<1>2. QED
  BY <1>1, EthCorrect, PTL DEF EthSpec, OkIsSent

=============================================================================
