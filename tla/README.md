# TLA+ models of the eva firmware

This directory holds TLA+ models of the firmware of an STM32F407 board
(FreeRTOS, lwIP, mbedTLS, FatFs and ST's USB host library), their TLC runs and
TLAPS proofs. It models the parts of the firmware in which most can go wrong:

- the USB host, from the control transfers up to the disk driver of FatFs, which
  two threads and several interrupt handlers share;
- the Ethernet driver, whose descriptor rings an interrupt handler, three threads
  and the controller's DMA share;
- the firmware upgrade over the network, which has to survive lost packets and
  power failures between any two writes to flash.

Parse a module with `tlasany M.tla`, check a run with
`tlc -config <run>.cfg <module>.tla`, check proofs with `tlapm M_proofs.tla`.
`PROJECT.json` maps every definition that models code to its lines.

## 1. The system

| component | code | state it keeps | operations |
|---|---|---|---|
| USB control transfers | `usbh_ctlreq.c` | `RequestState`, `Control.state`, `Control.errorcount`, URBs of two channels | `USBH_CtlReq`, called again until it answers something else than `USBH_BUSY` |
| USB host state machine | `usbh_core.c`, `usbh_pipes.c` | `gState`, `EnumState`, reset and retry counters, pipe pool, the message queue `os_event`, connection flags | `USBH_Process` (USB thread); `USBH_LL_Connect`, `_Disconnect`, `_PortEnabled`, `_PortDisabled`, `_NotifyURBChange` (interrupts) |
| user callbacks | `usb_host.c`, `usbh_user_callback.c` | `Appli_state`, the mounted volume | called by the USB thread |
| bulk-only transport | `usbh_msc_bot.c`, `usbh_msc_scsi.c`, `usbh_ioreq.c` | `hbot` (command block, status block, two state variables), URBs and data toggles of two channels | `USBH_MSC_SCSI_*`, called again until answered |
| mass-storage class | `usbh_msc.c` | the class handle: state, current unit, state, error, sense data and capacity of each unit | `Init`, `DeInit`, `Requests`, `BgndProcess` (USB thread); `USBH_MSC_Read`, `USBH_MSC_Write` (application) |
| FatFs disk driver | `usbh_diskio.c` | none | `USBH_read`, `USBH_write`, `USBH_status`, `USBH_ioctl` |
| host controller driver | `stm32f4xx_hal_hcd.c`, `usbh_conf.c` | `hc[]`: URB state, error count, toggles, masked interrupts | interrupt handlers; submission of an URB |
| Ethernet driver | `ethernetif.c`, `stm32f4xx_hal_eth.c` | two rings of descriptors and the place of the driver in each, a binary semaphore, the lock of the HAL handle, link flag, MAC on or off | reception interrupt; `ethernetif_input` (input thread); `low_level_output` (lwIP stack, link thread); `ethernetif_set_link`, `ethernetif_update_config` (link thread) |
| lwIP start-up | `lwip.c` | none of its own | starts the link thread and DHCP |
| firmware upgrade | `probe_tool_handler.c` (`fn3`), `main.c` | flash sectors 6 and 7, the flag in flash, the expected sum (static), which program runs | erase, announce the sum, program a chunk; the jump at the next start |
| application task | `app.c` | configuration, an event queue of one | loads the configuration, starts an upgrade from a USB disk |
| TLS sockets, entropy | `net_sockets.c`, `hardware_rng.c`, `mbedtls.c` | none | adapters |
| start-up, peripherals, console | the rest of `Src/` and `apps/` | none | generated initialisation, command tables |

`apps/modules` (flash, upgrade, EEPROM, virtual file system, probe tool, ftpd)
is an empty submodule: what is behind those calls is not known.

How the parts interact. The USB thread (`USBH_Process_OS`) takes a message from
`os_event` and calls `USBH_Process` once; each state does a little and, when it
has more to do, puts a message for itself. Interrupts set flags, store URB
states and put messages too. A full queue drops messages silently. The
application's thread does not go through the queue: when FatFs wants a sector
it drives the class handle itself, in a loop, and the transport's error
recovery calls `USBH_CtlReq` from there. So three parties share `gState`,
`RequestState`, the class handle and the pipes, without a lock.

The Ethernet driver shares nothing with the USB host but the processor. The
reception interrupt gives the input thread, which has the highest priority, a
semaphore; the thread takes frames out of the ring under lwIP's core lock and
hands them to the stack. The stack sends under the same lock. The link thread,
which has the lowest priority, polls the PHY, stops and starts the MAC and, because
lwIP announces a new link, sends too, but without the lock. Beneath all of them the
HAL has a lock of its own, a flag in its handle: who finds it set gets `HAL_BUSY`.

The upgrade is a dialogue with a tool on a PC, one UDP packet at a time. The
application's only part in it is to clear a flag and reset; the bootloader erases,
programs, sums, sets the flag and resets. The flag decides which of the two runs.

What makes it hard, and what has to hold in spite of it:

| part | hard because of | must hold |
|---|---|---|
| control transfers | interrupts of an earlier attempt arrive late; lost handshakes; NAKs overwrite URB states; retries counted across requests | OK means every stage was done; attempts are counted as allowed; an answer always comes |
| host | unplugging at any moment, also while the thread sleeps 200 ms or sits in a callback; a queue that drops messages; refusals; give-ups in the middle of a step | no lost wake-up; no answer taken for another's; no pipe shared unless the pool is dry; a device ends up ready or refused; callbacks in a legal order |
| transport | NAKs and lost handshakes leave host and device with different opinions; stalls change toggles; the tag of a status block is constant | no packet skipped or doubled; a command ends with its own status |
| class and driver | two threads on one handle; time limits that leave commands outstanding; reconnection during a transfer | own command; a ready unit has had its capacity read; failures are recorded; loops end |
| Ethernet driver | the interrupt is a level that several frames share; a handler that clears a lock it did not take; a sender without the lock; a DMA that suspends itself; answers of the HAL nobody looks at | no frame stranded; no buffer written while the DMA reads it; rings stay in step; no call skipped that would leave a link without a MAC |
| upgrade | packets lost or repeated; power failures in the middle of an erasure; flash bits that can only be cleared; a sum that does not see everything; an expected sum that every reset forgets | only what was summed runs, unless the flag's own erasure was cut off; a complete download runs as it is; the board gets to its application |

The list of hazards, each with its line, is `hazards` in `PROJECT.json`.

## 2. The modules

    abstract         is implemented by    is used by
    ControlTransfer  UsbhControl          UsbhCore
    MscSession       UsbhCore             MscDisk
    ScsiCommand      MscBot               MscDisk
    HostUser         UsbhCore             (the user)

    EthDriver          FirmwareUpgrade <- MCFirmwareUpgrade      on their own

`ControlTransfer`, `MscSession` and `ScsiCommand` are specified once and used twice: one
detailed module is shown to implement them, and the next is built from their actions
(`Ctl!Begin`, `Session!Open`, `Bot!End`). This is how the four layers fit together
without one state space for all of them.

**ControlTransfer** — a request is outstanding or not; stages are acknowledged;
it succeeds only when all its stages are, is refused only after its SETUP
packet, and fails for good only after `MaxErrorCount` attempts.

**UsbhControl** — `USBH_CtlReq`, `USBH_HandleControl` and the two channels of
the control pipe. One call of `USBH_CtlReq` is one step (`Poll`); each branch of
`USBH_HandleControl` is an operator named for the state, with the next state and
the returned status as parameters. An interrupt (`UrbIrq`) stores a URB state:
done, stall, NAK, error, babble; `active` says which stage the channel is
enabled for, so an IN channel that was re-activated after a NAK or an error can
still fire after the engine has started over. `wire` is a history variable: what
was really completed since the request was sent.

**HostUser** — what the callbacks promise: a medium becomes ready at most once
per announced connection and never stays mounted after a disconnection was
announced.

**MscSession** — what the host promises the class: a handle is allocated while a device is
there and has one session in `HOST_CLASS`, it is left behind by a give-up, freed after the
unplugging and before another device is noticed, and then the volume is unmounted. `UsbhCore`
implements it unless a device is plugged in before the unplugging of the last one was handled
(`SessionNow` is the mapping: the session is what `gState`, the class handle and the place of
the thread say).

**UsbhCore** — `USBH_Process` state by state, the enumeration step by step, the
pipe pool, the queue (only its length: `USBH_Process_OS` ignores what a message
says), the interrupts, and an application that transfers. Names are those of the code. Details:

- the 200 ms of `HOST_IDLE`, the 100 ms of `HOST_DEV_ATTACHED` and the callback
  during a disconnection are places of their own (`pc`), because interrupts and
  the application get in there; the delays of 2 ms and 10 ms inside other steps
  are folded into the step;
- one call of `USBH_CtlReq` is atomic; the application's calls come between, not
  inside, those of the USB thread;
- a failing `InterfaceInit` leaves no handle, or the one of a session lost before; that a handle
  hidden by a device of another class comes back with a later failing
  `InterfaceInit` is left out;
- without a class handle the calls of the application read through a null
  pointer (flash at address 0 on this chip); they are modelled as having no
  effect;
- `AppPersists` says whether the application goes on with a transfer after the
  host has left the session. The code lets it; `core_app_persists` shows what
  comes of it. The other runs take it as FALSE; section 5 says which theorems do (most of the host's hold for
  both);
- a device that answers has a USB state (`dev`), and hears only requests to its
  own address.

**ScsiCommand** — a command is outstanding, the device moves its data and
answers passed, failed or phase error; it ends with that answer. That a device answers passed
only when all data was moved is an assumption on the device: the code does not look at the
residue of the status block.

**MscBot** — `USBH_MSC_BOT_Process` and the calls of `usbh_msc_scsi.c` above it,
the OUT and IN channel with URB states and data toggles, and the device with its
own toggles, halted endpoints and phase. `Bus` has one action per outcome of a
transaction in `HCD_HC_OUT_IRQHandler` and `HCD_HC_IN_IRQHandler`. A lost
acknowledgement of an IN packet is not modelled. An OUT
channel re-activated after an error sends nothing until it is submitted again,
because the FIFO is filled by the submission only. That CLEAR_FEATURE resets the
device's toggle is the USB specification's, not this code's.

**MscDisk** — `USBH_MSC_Process`, `USBH_MSC_RdWrProcess`, `USBH_MSC_Read`,
`USBH_MSC_Write` and the driver's answers, over the actions of `ScsiCommand`.
The loop of a transfer is one action per turn (`PollTransfer`). The host's side is
`MscSession`: each of its steps is an action here, together with what it does to the
handle (`OpenSession` is `Session!Open` with a new handle, and so on). Notes:

- `Answers` are the answers to GET_MAX_LUN and `MaxSupportedLun` is the room of the handle.
  `UnitsOf` computes the number of units as the code does (`usbh_msc.c:289`), so a device that
  answers `MAX_SUPPORTED_LUN` has one unit more than the array. `Overrun` is the examination
  of that unit: its state and error are the two bytes of `current_lun`, which is behind the array,
  enumerations being one byte wide in this build; so it ends the examination, and
  TEST_UNIT_READY may have been asked for or not, as the compiler keeps the unit's address
  or computes it again. What the loop of `usbh_msc.c:292` writes to that unit is left out (`rw_lun`,
  which is set before it is used, and a byte behind the handle);
- `block` is what a unit's capacity says: not read yet, read and 0, read and not 0. The code keeps
  16 bits of the answer and checks nothing (`usbh_msc_scsi.c:182`), so a capacity that was
  read may give a block size of 0, and then a transfer has no data. Other sizes than
  the 512 that FatFs assumes move data of the wrong length and are not told apart;
- sense data is what the code tells apart: what the examination tries again for and
  the driver calls not ready, write protection, the rest. A unit attention is tried again
  too. Only the sense data and the block size of unit 0 are kept, the only ones ever read;
- outside `HOST_CLASS` the driver evaluates a variable nobody wrote
  (`usbh_diskio.c:122`): any of the failures;
- a loop ends by writing to the handle it began with. `handle` says what became
  of that memory: the current handle, leaked by a second `InterfaceInit`, or freed
  (then the write hits nothing that matters or the next session's handle);
- a freed or absent handle is represented by a fresh one, and the time limit is
  reset when the loop ends, both to keep the states few;
- a session in `HOST_CLASS` is lost only with a command outstanding (clearing an endpoint
  that stalled it was given up), one before `HOST_CLASS` when GET_MAX_LUN is given up;
- `good` and `clean` are history variables. `clean` says that the application
  was idle and nothing was mounted when the session began. A give-up leaves the
  volume mounted, so a transfer may cut into the examination of the next
  session; the invariants about commands are stated for sound sessions (`Sound`: clean, and
  the device's units fit in the handle), because in the others the code keeps none of them.

**EthDriver** — both rings, the interrupt, the input thread, the two senders, the
link thread and the lock of the HAL. Priorities are part of the model: a step of a
thread is enabled only when no thread above it is ready (`StackRuns`, `LinkRuns`).
Where the code can be interrupted inside a function and it matters, the function
is several steps: `low_level_output` reads the descriptor (`Begin`), enters
`HAL_ETH_TransmitFrame` (`Enter`), gives the descriptor to the DMA (`HandOver`)
and moves on (`Advance`); a call of `HAL_ETH_Start` and its like takes the lock
(`Calls`) and returns (`Returns`). Details:

- receive and transmit buffers (1524 bytes) hold the longest frame, so a frame is one
  descriptor. The DMA resumes reception by itself when the next frame comes, so the
  code's handling of `RBUS` changes nothing here; `TUS` cannot be set, because the MAC
  is configured for store-and-forward;
- the interrupt is raised as long as flag `R` is set; the callback and the clearing
  of the flag are two steps, and a frame may come in between. The DMA's look at a
  descriptor and what it does then is one step;
- a frame handed to lwIP is out of sight: whether its mailbox was full does not
  matter to the driver, which has copied the frame and given the descriptor back;
- `Reads`: `heth->TxDesc` is no volatile field, so after an interruption the
  compiler's code may use the value it read before or read it again;
- `setup` is the rest of `MX_LWIP_Init` after the start of the link thread, in which
  `dhcp_start` sends without the core lock; it runs with the priority of the stack.
  `HAL_ETH_Start` of `low_level_init` has run in the initial state;
- `crossed` and `starved` are history variables for the conditions of the properties.

**FirmwareUpgrade** — `fn3` in both programs, the jump to the application at the
start, the tool, the network and the power. A chunk stands for one byte, which is a set of
bits; erasing sets them, programming clears them, and the sum is the sum of the
bytes. An area of at most 256 KiB cannot make the 32-bit sum overflow. Programming and
erasing a sector are one step each, and `PowerFails` may tear either: any part of
the bits is changed. All images have the same size. Details:

- the flag at `APP_CONFIG_ADDRESS` is programmed like the rest, so it cannot go from
  `0x00` to `0x01`. Whether erasing sectors 6 and 7 erases it too is decided by a
  header of the submodule `apps/modules`: `FlagErased`. If it is, an erasure that is cut off may
  leave any value in the flag (`TornFlag`). The three values of `flag` stand for all: those that
  programming cannot turn into 0x01, 0x01 itself, which `jump_to_app` looks for, and those that it can;
- `torn` is a history variable: the flag is what such an erasure left;
- `net` is a set of packets. The tool sends again only when neither its request nor
  the answer is under way any more, which is what its timeout is for;
- after the last answer the tool's user sees which program answers and starts again
  if it is the bootloader (`TryAgain`), and may start again at any other time, with any
  image, at the cost of a fault (`StartAfresh`);
- `writers`, `summed`, `vouched` and `again` are history variables too.

External (no code in the repository, or not the firmware's): the device behind
the port, FatFs, the bus; the Ethernet controller, cable and PHY; the upgrade tool,
UDP, the flash driver, `jump_to_app`.

## 3. The runs

| run | module | bounds | distinct states |
|---|---|---|---|
| `control` | `MCUsbhControl` | all four shapes of a request, 2 retries | 9 237 |
| `core_safety` | `MCUsbhCore` | the firmware's 11 pipes and 3 resets and retries, queue of 3, lossy bus, any refusal, quick replugs | 2 181 564 |
| `core_progress` | `MCUsbhCore` | queue of 2, 6 pipes, 1 reset, 1 retry of a refused descriptor, lossy bus | 210 308 |
| `core_lost_disconnect` | `MCUsbhCore` | the same, no losses, quick replugs | violation |
| `core_stale_enum` | `MCUsbhCore` | the same, losses | violation |
| `core_app_persists` | `MCUsbhCore` | the same, an application that goes on | violation |
| `bot` | `MscBot` | up to 3 packets of data each way, stalls, bursts of errors | 7 281 |
| `bot_after_stall` | `MscBot` | up to 2 packets | violation |
| `disk` | `MscDisk` | room for 2 units (`MAX_SUPPORTED_LUN`), a device that has 2 or announces 3 | 1 067 010 |
| `disk_write_protected` | `MscDisk` | 1 unit, room for 1 | violation |
| `eth` | `EthDriver` | 2 descriptors each way | 576 600 |
| `upgrade` | `MCFirmwareUpgrade` | 2 chunks of 2 bits, a sector each, 2 images of the same sum, 3 faults | 1 401 876 |

What the passing runs show is in `PROJECT.json`, one sentence each; in short:

- **control**: OK only for completed transfers (`OkIsComplete`) although late
  interrupts of an earlier attempt do reach the URB state; every request answered if no OUT
  status stage is refused (`Answered`); attempts counted across requests as `ControlTransfer`
  counts them, and no failure for good before they are used up (`ControlTransferSpec`).
- **core_safety**: no state with work to do sleeps without a message although the
  queue drops some (`NoLostWakeup`); the outstanding request belongs to the
  step the host is at (`OwnRequest`); `HostUser` (`UserSpec`). The application ends its transfers
  with their session here (`AppPersists = FALSE`); `core_app_persists` is about one that does not.
- **core_progress**: however many pipes were leaked by give-ups, two users never have the same
  pipe of the pool, and what `USBH_AllocPipe` answers when there is none, 255, is in use only
  when the pool was dry (`PipeOwnership`); without give-ups it never is, and every pipe in
  use is one of the pool with one user (`OwnPipesUnlessGivenUp`); the class gets the sessions of `MscSession`
  (`SessionSpec`); a disconnection is handled
  (`DisconnectHandled`); while nothing has to be given up the enumeration is complete when it ends
  (`EnumCompleteIfQuiet`) and a device that stays becomes ready or is refused
  (`SettlesIfQuiet`).
- **bot**: `Lockstep` of host and device over every loss but the one section 2 leaves out, the
  acknowledgement of an IN packet; `ScsiCommandSpec`; the
  commands of a cooperative device are finished (`BotAnswered`).
- **disk**: in a sound session nobody takes another's answer (`OwnCommand`), units that are
  ready have had their capacity read (`CapacityKnown`), and a failure reported as success at
  least marks the unit, unless the device says its block size is 0 (`ErrorRecorded`); the
  examination never goes further than one unit behind the array (`DiskTypeOK`); transfers and the examination end (`TransferEnds`,
  `ExaminationEnds`).
- **eth**: a frame is read once, in order, and never overwritten while it is read
  (`RxRing`), and the binary semaphore strands none (`NoFrameStranded`, `RxServed`); the
  HAL's flag is not met set where it would hurt (`NeverBusy`), so that a link that is
  up has a MAC that runs (`LinkedMac`, `MacFollows`); driver and DMA agree about the
  transmit ring (`TxRing`, `SentIntact`), and it drains (`TxDrains`); the cases in which
  `ERR_OK` is answered for a frame that was dropped are known (`OkIsSent`).
- **upgrade**: the application runs only while its area is what was summed, unless the erasure of
  the flag was cut off and left it set (`OnlySummedRuns`), and if nothing but chunks of the announced image were programmed, it is that
  image (`CompleteRuns`); without faults an upgrade succeeds at once (`FirstTime`), and after
  the last fault the board gets to its application if it never started a damaged one (`EndsInApp`).

Why the bounds are enough. Retry and reset counters matter by "some left" and
"none left", which 1 or 2 already distinguish; `core_safety` has the firmware's
own values for pipes, resets and enumeration retries, and with them the leak of
class pipes exhausts the pool. A queue of 2 or 3 is full after any two interrupts,
which makes drops common, where the firmware's 16 make them rare; `events` is
only ever compared with 0, and the proof of `NoLostWakeup` is for any length.
Three packets are a first, a middle and a last one, and let a toggle come back
to its value. Two units are one the application uses and one it does not, and a device that
announces more than there is room for can only announce one more (`UnitsOf`). A ring
of two descriptors is empty, half full and full, and its pointers wrap around; the proofs
are for rings of any size. Two images with the same sum and no bit in common are the worst the sum can
be asked to tell apart; two chunks are a first and a last one, lie in different sectors and
can come in either order; three faults allow a repetition that outlives a power failure and
a restart of the tool. The proofs are for any images and any number of faults.

Conditions. A liveness property that the code only keeps under a condition is
stated with it: `Answered` (no refused OUT status stage), `EnumCompleteIfQuiet`
and `SettlesIfQuiet` (no give-up, no port disabled under a working host),
`BotAnswered` (a device that moves all the data it is asked for, no four errors
in a row), `TxDrains` and `MacFollows` (`NotFlooded`: the frames that come in leave the
lowest thread some time), `EndsInApp` and `FirstTime` (`FlagErased`; faults are
bounded; `EndsInApp` also that no damaged image is started, which after a torn erasure of the
flag, or damage that the sum does not see, may do anything). `OnlySummedRuns` excepts the torn flag, and
`ErrorRecorded` a block size of 0. `TxRing` and `SentIntact` hold until two senders meet (`crossed`). Each
excluded case is either shown by a violation run, told in section 4 or listed as a hazard
with its line.

Deadlock is checked in every run but `upgrade`: an upgrade ends, with the tool done,
the application running and no fault left to happen.

### Fairness

- *The threads*: `WF(Poll)`, `WF(Thread)`, `WF(Call)`, `WF(ClassProcess)`,
  `WF(PollTransfer)`. All tasks of the firmware have the same priority except the
  Ethernet tasks, and FreeRTOS slices time among equals, so a step that stays
  enabled is taken.
- *The device*: a device asked again and again answers some day, `SF` because
  NAKs and losses disable the answer for a while (`DeviceAnswers`, `OutDone`,
  `InDone`), `WF(Acknowledges)`, `WF(DeviceActs)`. Nothing is assumed of what it answers.
- *The engine below*: `SF(Answer)` in `UsbhCore` is `Answered` of `UsbhControl`;
  `SF(ClassActive)` is `ExaminationEnds` of `MscDisk`.
- *The Ethernet threads*: `WF(Interrupt)` and `WF(DmaSend)`: the hardware acts. `WF(Input)`:
  nothing has a higher priority than the input thread. `SF(Link)` and `SF(GoesOn)` for the
  threads below, which a frame may always interrupt: a thread that gets the processor again and
  again gets to its next step. That it does get it is not assumed, but the condition `NotFlooded` of the
  properties. Nothing obliges the stack to send, the cable to stay or frames to come.
- *The upgrade*: `WF` of the board's handling of a request that is there (of an application
  only if it is one of the images: a damaged one need not answer), of
  the arrival of an answer, and of the tool's sending (again). Losses, repetitions and
  power failures come from a bounded supply of faults; without the bound a network
  that loses everything makes every such property false.
- *Time*: `WF(TenSeconds)`, `WF(TimeLimit)`: the frame counter of the controller
  advances.

## 4. Disagreements between code and comments

| run | property | what the code does |
|---|---|---|
| `core_lost_disconnect` | `Settles` | a connection interrupt clears the pending disconnection: the new device is never enumerated |
| `core_stale_enum` | `EnumComplete` | giving up keeps `EnumState`: the next enumeration starts in the middle |
| `core_app_persists` | `OwnAnswer` | a transfer outlives its session and shares `RequestState` with the next enumeration |
| `bot_after_stall` | `StatusAfterStall` | clearing a halted IN endpoint leaves the host's toggle: the status block is dropped |
| `disk_write_protected` | `WriteProtectReported` | `USBH_MSC_Write` drops the failure of its last step: a refused write is answered `RES_OK` |

Met as well, without a run of its own: an error of an OUT data stage of a
control transfer fails without a retry (`usbh_ctlreq.c:814`; no request of the
firmware has one); the limit of stalls of a
command (`usbh_msc_bot.c:481`) is never reached, because nothing answers
`USBH_UNRECOVERED_ERROR`; a refused SET_CONFIGURATION or SET_FEATURE is sent
again for ever (`HandledRefusal` in `MCUsbhCore` leaves it out of
`core_progress`); a give-up of GET_MAX_LUN is overridden by
`HOST_ABORT_STATE`; a loop that ran into its time limit leaves the unit in `MSC_READ`, and every
later transfer is refused until the device is unplugged.

In the pipes and the class:

- When repeated give-ups have leaked all pipes, `USBH_AllocPipe` answers 255 (`usbh_pipes.c:128`). Nobody
  looks at it: `usbh_core.c:550` and the class open pipe 255 and use it, all that were given it
  at a time, and `hc[255]` is outside the array. `PipeOwnership` says when this happens, not that it does not.
- The number of units is cut to `MAX_SUPPORTED_LUN` only when the answer is above it
  (`usbh_msc.c:289`): a device that answers 2 is examined for three units with room for two, and
  the third overlays `current_lun`. This ends the examination by accident, at times with
  a command outstanding.
- The block size is 16 unchecked bits of the device's answer (`usbh_msc_scsi.c:182`), and FatFs, configured
  for sectors of 512 bytes, does not ask for it. With 0 a transfer passes without data, `RES_OK` is
  answered, and the unit stays ready.

In the control transfers: the wait for an OUT status stage names no STALL
(`usbh_ctlreq.c:899`), so the request of a device that refuses this stage is never answered;
`Answered` excludes it.

In the Ethernet driver:

- `low_level_output` does not look at what `HAL_ETH_TransmitFrame` answers
  (`ethernetif.c:385`) and returns `ERR_OK`, "if the packet could be sent" (line 318), for a
  frame that met `HAL_BUSY`. `OkIsSent` says when: a frame of the stack while the link
  thread is inside the HAL.
- The link thread, and `dhcp_start` in `MX_LWIP_Init`, send without the core lock, although
  lwIP says the lock is to be held (`LWIP_ASSERT_CORE_LOCKED`, an empty macro here). Two
  senders may meet in `low_level_output`; then one frame may overwrite another and the driver
  and the DMA may lose each other in the ring. This is `crossed`.
- A board that starts without a cable sets its interface down (`lwip.c:81`), `dhcp_start` refuses
  it, and nothing sets it up when the cable is plugged in.
- Frames that come as fast as the input thread takes them keep every other thread from running
  (`ethernetif.c:505`), the one that refreshes the watchdog included.

In the upgrade:

- The answer to the last chunk goes out just before the reset. If it is lost, the tool sends the
  chunk again, the application that now runs clears the flag and resets, and the bootloader stays
  although the image is complete, until the whole upgrade is done again.
- The sum (called `crc32`) does not see damage that evens out: what runs is what was summed, not
  always what was sent. `CompleteRuns` needs that nothing else was programmed.
- If the flag is in the sectors that are erased and the power fails during the erasure, any value may be left
  in it, 0x01 too, also after an upgrade that began with a flag of 0x00: the next start then jumps into an
  area without an image. Nothing but that byte tells the bootloader whether there is one.
- If the flag's address is not in the sectors that are erased, `0x01` is programmed over `0x00`
  and the board never leaves the bootloader again: `FlagErased`, and the theorem `UpgNeverAgain`.

## 5. The proofs

| module | theorem | for every |
|---|---|---|
| `UsbhControl_proofs` | `CtlTypeCorrect`, `CtlOkIsComplete`, `CtlImplementsControlTransfer` | set of requests, retry bound |
| `UsbhCore_proofs` | `CoreNoLostWakeup`, `CoreOwnRequest`, `CoreImplementsHostUser` | queue, pool, bounds, refusals, bus, application, order of plugging |
| | `CorePipeOwnership`, `CoreImplementsMscSession` | as the first with `QuickReplug = FALSE` |
| | `CoreOwnPipes` | as the second with at least 4 pipes |
| | `CoreTypeCorrect` | as the first with `AppPersists = FALSE` |
| | `CoreEnumComplete` | as the first with `AppPersists = FALSE` and `QuickReplug = FALSE` |
| `MscBot_proofs` | `BotTypeCorrect`, `BotLockstep`, `BotImplementsScsiCommand` | size of the data stage, device |
| `MscDisk_proofs` | `DiskTypeCorrect`, `DiskOwnCommand`, `DiskCapacityKnown`, `DiskErrorRecorded` | `MAX_SUPPORTED_LUN`, answers to GET_MAX_LUN |
| `EthDriver_proofs` | `EthTypeCorrect`, `EthRxRing`, `EthNoFrameStranded`, `EthNeverBusy`, `EthTxRing`, `EthSentIntact`, `EthLinkedMac`, `EthOkIsSent` | size of either ring |
| `FirmwareUpgrade_proofs` | `UpgTypeCorrect`, `UpgOnlySummedRuns`, `UpgCompleteRuns`, `UpgFirstTime`; `UpgNeverAgain` with `FlagErased = FALSE` | number and size of the images, bytes of any value, number of faults |

The assumptions are the named `ASSUME`s of the modules (constants are natural
numbers or Booleans, not empty where something must exist), which TLC evaluates
in every run, and the choices of the table, which say what a theorem is about:
`core_app_persists` shows that `OwnAnswer` is false of an application that outlives its
session, `core_lost_disconnect` what a quick replug does, and a device whose
plugging hid an unplugging is enumerated with the old one's address.

Each proof has the same shape: an inductive invariant, one lemma for the initial
states, one per action or group of actions, and the theorems as consequences.
None of the properties is inductive alone:

- `CtlInv` says, for each state of the engine, in which direction the data goes
  and which stages of this attempt the device has already acknowledged (`wire`).
  In a wait state (`WaitKnown`) a channel is enabled only for the awaited stage,
  and a URB that is done means that the stage is in `wire`. Two more parts make
  this inductive: no SETUP of an earlier attempt is in flight in a later stage
  (`NoLateSetup`), and the channel of a URB that is done has halted, so that no
  interrupt comes late (`DoneHalts`). `OkIsComplete` follows.
- `WakeInv` and `UserInv` need nothing of the rest of the host, which is why their theorems
  have no hypothesis. `WakeInv` adds only that the queue is within its length: every handler
  leaves the thread asleep on purpose, leaves a message (a full queue has one
  already) or leaves nothing to do. `UserInv` says that a class that could announce itself
  belongs to a session the user was told of (`UserKnows`), and that between two callbacks the host
  stays where it was.
- `SessionInv` says that of a device that is gone either the unplugging is still to be handled
  or nothing is left (`Forgotten`): no handle, `HOST_IDLE`, no handler under way. So
  every step of the state machine is for a device that is there, which is what
  `MscSession` asks of `Open`, `Enter` and `Activate`, and the next device finds no handle. An
  application that outlives its session can throw the host back to `HOST_IDLE` in the middle of
  an enumeration, but that only loses a session.
- `CoreInv` adds to the type invariant that the place where the thread sleeps determines
  `gState` (`Sleeping`), that a counter is past its bound only in the abort state (`Exhausted`)
  and that a request belongs to the step the host is at (`InStep`), which is where `AppPersists`
  comes in. `CoreOwnRequest` has an invariant of its own (`OwnInv`), which allows for
  the request of an application that outlives its session, and holds for both.
- `PipeOwnership` speaks of the control pipes only while the host uses them, but an application
  that outlives its session gives them up at any later time, by their old numbers. `PipesApart`
  makes it inductive: as long as a class handle is open, the last control pipes, given up or not,
  are none of its pipes. A new pair is taken from what nobody uses (`AllocApart`), also by an
  enumeration that begins while a class handle is left over from a give-up, and giving up takes
  nothing of the class's (`PipesFreed`). 255 is handed out by a dry pool only, and while it
  is in use nothing comes back but what the control pipes gave up (`PoolDry`).
- `Tidy` is the invariant behind `CoreOwnPipes`: without a give-up at most the two control pipes and
  the two pipes of the class are taken at a time (`TidyPool`), so four are enough.
- `EnumInv` relates what the host believes of the device to what the device is. `Standing`: at
  each step of the enumeration, which address the host uses and which USB state the device may be
  in; in the two steps that change the device it may already have been changed,
  because the answer is still to come. `Obeyed`: once all stages of such a request
  are acknowledged the device did it. Both hold until an unplugging is pending. Giving up is what breaks them
  (`core_stale_enum`), so the proof carries `failures < MaxErrorCount`, the only part of
  `QuietBus` it uses.
- `BotInv` relates the state of the host, the URB of its channel, the toggles and
  the phase of the device. In the data stage (`DataKnown`) host and device are in
  lockstep: the device is ahead by one packet at most. It is what makes a lost
  acknowledgement (the device is ahead) different from a lost packet (nobody is).
  `EndKnown` says the same of the command wrapper, a stall and the status wrapper.
- `DiskInv` says how many units are examined (`Counted`) and that in a sound session examination and transfers take turns
  (`Turns`), that a handle the loop holds is the current one (`HandleKnown`),
  that the outstanding command is the one the unit's state asks for and has data
  exactly if the block size is not 0 (`OwnCommand`, `DataKnown`), and that the
  units already examined and found ready have had their capacity read (`UnitsKnown`).
  `ErrorRecorded` needs all of them: a transfer that passes without having moved data
  had a block size of 0, and if the device did not say so, the capacity was never read and the
  unit is not marked ready.

- `EthInv` has four parts. `RxInv`: the frames that wait are an arc of the ring, from where the
  input thread is to where the DMA is; the lemmas about arcs say what taking one slot from an
  end does, for any size of the circle. `LockInv`: who can be inside the HAL when its flag is
  set, which is where the priorities come in. `TxInv`: the same arc for the transmit ring, up to
  the descriptor that is handed over but not yet passed. `LinkInv`: between the steps of the
  link thread, what is known of the flag and the MAC.
- `UpgInv` says that the application runs, or the flag is set, only over what was summed
  (`SummedInv`, `FlagInv`) or with a flag a cut-off erasure left (`TornInv`), and that bits of an image survive as long as only its own chunks are
  programmed (`Kept`). That equal sums then mean equal areas is the lemma `SumStrict`: a sum
  is the cardinality of a set of units, and a proper part of a finite set is smaller. `Clean`
  is the invariant of an upgrade without faults: tool and board take turns, and what the
  board has done is what the tool has been answered, or one request more. `UpgNeverAgain`
  needs only that programming never sets a bit (`ClearedStays`).

Only model-checked: the liveness properties (`Answered`, `DisconnectHandled`,
`SettlesIfQuiet`, `BotAnswered`, `TransferEnds`, `ExaminationEnds`, `RxServed`, `TxDrains`,
`MacFollows`, `EndsInApp`), since liveness and `ENABLED` are out of reach of the prover. Every
invariant and every action property of a passing run is proved, and so are the four refinements.

## 6. What is not modelled

Components with the status `not_modelled` in `PROJECT.json` say why; the
content of descriptors, command blocks, sectors and frames is left out everywhere;
`USBH_Stop`, `USBH_ReEnumerate`, `USBH_DeInit` and `USBH_MSC_BOT_REQ_Reset` have
no caller in the firmware. In the USB host the HAL lock (`__HAL_LOCK`), taken by
`HAL_HCD_Start` and others, is left out: a call that finds it held would be
skipped. In the upgrade, several tools at a time and images of different sizes are
left out, and so are the other functions of the probe tool, which keep no state.

`app.c` hands everything it does to `apps/modules`, the empty submodule; what is
left of it, an event queue of one, is in the list of components. The generated
initialisation has no behaviour to model.

Most of the repository is not this firmware's own code: ST's HAL and CMSIS headers,
FreeRTOS, lwIP, mbedTLS and FatFs make up more than nine tenths of its lines. They
are used here as an environment, at the places where the firmware meets them. So the
share of the repository's lines that the map covers is small, and stays so unless the
libraries themselves were modelled.

## 7. Plan

1. Done: the USB host, in the order control transfers, host, transport, class; the
   Ethernet driver; the firmware upgrade; proofs of all their safety properties; the
   layers joined by abstract modules that one implements and the next is built on.
2. lwIP's interface flags and its DHCP client, as far as the start without a cable and
   the sending without the core lock depend on them.
