-------------------------- MODULE FirmwareUpgrade --------------------------
(***************************************************************************)
(* The firmware upgrade over the network: fn3 of probe_tool_handler.c in   *)
(* both programs, bootloader and application, the tool that drives it over *)
(* UDP, and the power that may fail at any moment.                         *)
(*                                                                         *)
(* The tool sends one request at a time: erase, the sum of the image, then *)
(* chunk after chunk; the board's echo of the request is the answer, and a *)
(* request without one is sent again.  The last chunk makes the board sum  *)
(* its flash and, if the sums agree, set a flag and start the application. *)
(*                                                                         *)
(* The area of the application is the set of its bits that are 1: erasing  *)
(* fills it, programming only takes bits away.  An image is such a set,    *)
(* and a chunk of it stands for one byte.                                  *)
(*                                                                         *)
(* The tool, the network, the flash driver and jump_to_app are external.   *)
(* Bound: Faults counts what the environment may still do wrong, of which  *)
(* there is a loss, a duplicate, a power failure, or a tool that is        *)
(* started afresh in the middle of things.                                 *)
(***************************************************************************)
EXTENDS Naturals, FiniteSets

CONSTANTS
  Chunks,      \* the number of chunks of an image
  InSector6,   \* how many of them lie in FLASH_SECTOR_6; the others lie in the next
  BitValues,   \* the values of the bits of a byte
  Images,      \* the images, each the set of its bits that are 1
  FlagErased,  \* erasing the two sectors erases APP_CONFIG_ADDRESS too
  Faults       \* the bound on the environment's faults

Bits == (1 .. Chunks) \X BitValues

ASSUME UpgAssumption ==
  /\ Chunks \in Nat \ {0} /\ InSector6 \in 0 .. Chunks
  /\ BitValues \subseteq 1 .. 128
  /\ Images \subseteq (SUBSET Bits) \ {{}}
  /\ FlagErased \in BOOLEAN /\ Faults \in Nat

VARIABLES
  flash,    \* the application's area
  flag,     \* the byte at APP_CONFIG_ADDRESS
  torn,     \* history: the flag is what an erasure that was cut off left of it
  running,  \* which program runs
  pc,       \* where fn3 is
  job,      \* the request it handles
  file,     \* file_crc32 is the sum of this image; {} before any was announced
  passed,   \* start_app
  net,      \* requests and answers under way
  image,    \* the tool's image
  step,     \* the request the tool wants answered
  faults,   \* how many faults happened
  again,    \* history: the tool began again
  writers,  \* history: what was programmed since the last erasure; {} for damage
  summed,   \* history: the area when the sums agreed last
  vouched   \* history: the image whose sum it was

flashVars == <<flash, flag, torn, writers, summed, vouched>>
boardVars == <<running, pc, job, file, passed>>
toolVars  == <<image, step, again>>
upgVars   == <<flashVars, boardVars, net, toolVars, faults>>

(* The flag's values: those with the lowest bit cleared, the value that    *)
(* jump_to_app looks for, and the others, of which an erased byte is one.  *)
NotSet == 0
IsSet  == 1
Erased == 255

(* The tool's steps: 0 erases, 1 announces the sum, 1 + c sends chunk c.   *)
Done     == Chunks + 2
Requests == [image : Images, step : 0 .. Chunks + 1]
Packets  == {"request", "answer"} \X Requests
Current  == [image |-> image, step |-> step]

InChunk(c)  == {b \in Bits : b[1] = c}
InSector(n) ==
  LET first == {b \in Bits : b[1] <= InSector6}
  IN  IF n = 6 THEN first ELSE Bits \ first

(* The sum of the bytes, counted in units: of the area's at most 256 KiB,  *)
(* it does not reach 2^32.                                                 *)
Units(area) == {u \in area \X (1 .. 128) : u[2] <= u[1][2]}
Sum(area)   == Cardinality(Units(area))

(* Programming clears bits and sets none.                                  *)
ProgramFlag(value) ==
  /\ flag' = CASE value = NotSet -> NotSet
               [] value = IsSet  -> IF flag = NotSet THEN NotSet ELSE IsSet
  /\ torn' = FALSE

Programmed(i, c) == flash \ (InChunk(c) \ i)

UpgInit ==
  /\ \/ running = "bootloader" /\ flag = Erased /\ flash = Bits /\ writers = {}
        /\ summed = {} /\ vouched = {}
     \/ running = "app" /\ flag = IsSet /\ flash \in Images /\ writers = {flash}
        /\ summed = flash /\ vouched = flash
  /\ pc = "ready" /\ job \in [image : Images, step : {0}] /\ file = {} /\ passed = FALSE
  /\ net = {} /\ image = job.image /\ step = 0 /\ again = FALSE /\ faults = 0 /\ torn = FALSE

----------------------------------------------------------------------------
(* fn3.                                                                    *)

(* The reset, and the bootloader's jump_to_app: what is in RAM is lost.    *)
Reset ==
  /\ running' = IF flag' = IsSet THEN "app" ELSE "bootloader"
  /\ pc' = "ready" /\ file' = {} /\ passed' = FALSE
  /\ UNCHANGED job

(* The network hands over a packet; a duplicate of it may stay behind.     *)
Arrives(p) ==
  /\ p \in net
  /\ \/ net' = net \ {p} /\ UNCHANGED faults
     \/ faults < Faults /\ faults' = faults + 1 /\ UNCHANGED net

(* In the application: clear the flag and reset, without an answer.        *)
Leave(r) ==
  /\ running = "app" /\ pc = "ready" /\ Arrives(<<"request", r>>)
  /\ ProgramFlag(NotSet) /\ Reset
  /\ UNCHANGED <<flash, writers, summed, vouched, toolVars>>

PlaceOf(r) == IF r.step = 0 THEN "erase6" ELSE IF r.step = 1 THEN "reply" ELSE "program"

(* Variant: the application handles the request like the bootloader.       *)
HandleAnywhere(r) ==
  /\ pc = "ready" /\ Arrives(<<"request", r>>)
  /\ job' = r /\ pc' = PlaceOf(r) /\ file' = IF r.step = 1 THEN r.image ELSE file
  /\ UNCHANGED <<flashVars, running, passed, toolVars>>

Handle(r) ==
  /\ running = "bootloader" /\ pc = "ready" /\ Arrives(<<"request", r>>)
  /\ job' = r /\ pc' = PlaceOf(r) /\ file' = IF r.step = 1 THEN r.image ELSE file
  /\ UNCHANGED <<flashVars, running, passed, toolVars>>

EraseSector6 ==
  /\ pc = "erase6" /\ pc' = "erase7" /\ flash' = flash \union InSector(6)
  /\ UNCHANGED <<flag, torn, writers, summed, vouched, running, job, file, passed, net, toolVars,
                 faults>>

EraseSector7 ==
  /\ pc = "erase7" /\ pc' = "reply" /\ flash' = flash \union InSector(7)
  /\ writers' = {}
  /\ IF FlagErased THEN flag' = Erased /\ torn' = FALSE ELSE UNCHANGED <<flag, torn>>
  /\ UNCHANGED <<summed, vouched, running, job, file, passed, net, toolVars, faults>>

IsLast(r) == r.step = Chunks + 1

(* The sums agree, and are remembered.                                     *)
Judge(agree) ==
  /\ pc' = "reply" /\ passed' = (IsLast(job) /\ agree)
  /\ summed' = IF passed' THEN flash' ELSE summed
  /\ vouched' = IF passed' THEN file ELSE vouched

(* Variant: the sums are not compared.                                     *)
ProgramUnchecked ==
  /\ pc = "program" /\ flash' = Programmed(job.image, job.step - 1)
  /\ writers' = writers \union {job.image} /\ Judge(TRUE)
  /\ UNCHANGED <<flag, torn, running, job, file, net, toolVars, faults>>

(* Variant: the area is summed before the last chunk is in it.             *)
ProgramLate ==
  /\ pc = "program" /\ flash' = Programmed(job.image, job.step - 1)
  /\ writers' = writers \union {job.image} /\ Judge(Sum(flash) = Sum(file))
  /\ UNCHANGED <<flag, torn, running, job, file, net, toolVars, faults>>

Program ==
  /\ pc = "program" /\ flash' = Programmed(job.image, job.step - 1)
  /\ writers' = writers \union {job.image} /\ Judge(Sum(flash') = Sum(file))
  /\ UNCHANGED <<flag, torn, running, job, file, net, toolVars, faults>>

(* Variant: the sum is stored without an answer.                           *)
ReplyNotToSum ==
  /\ pc = "reply" /\ net' = IF job.step = 1 THEN net ELSE net \union {<<"answer", job>>}
  /\ pc' = IF passed THEN "start" ELSE "ready"
  /\ UNCHANGED <<flashVars, running, job, file, passed, toolVars, faults>>

(* loopback: the answer says nothing of the sums.                          *)
Reply ==
  /\ pc = "reply" /\ net' = net \union {<<"answer", job>>}
  /\ pc' = IF passed THEN "start" ELSE "ready"
  /\ UNCHANGED <<flashVars, running, job, file, passed, toolVars, faults>>

StartApp ==
  /\ pc = "start" /\ ProgramFlag(IsSet) /\ Reset
  /\ UNCHANGED <<flash, writers, summed, vouched, net, toolVars, faults>>

Fn3 == EraseSector6 \/ EraseSector7 \/ Program \/ Reply \/ StartApp

----------------------------------------------------------------------------
(* The environment.                                                        *)

(* An erasure that is cut off leaves anything in its sector, also in place *)
(* of the flag; a programming that is cut off has cleared some of its bits. *)
Torn ==
  \/ pc \in {"erase6", "erase7"} /\ writers' = writers \union {{}}
     /\ LET sector == InSector(IF pc = "erase6" THEN 6 ELSE 7)
        IN  \E some \in SUBSET sector : flash' = (flash \ sector) \union some
  \/ pc = "program" /\ writers' = writers \union {job.image}
     /\ \E some \in SUBSET (flash \ Programmed(job.image, job.step - 1)) : flash' = flash \ some
  \/ pc \notin {"erase6", "erase7", "program"} /\ UNCHANGED <<flash, writers>>

TornFlag ==
  IF pc = "erase7" /\ FlagErased THEN flag' \in {NotSet, IsSet, Erased} /\ torn' = TRUE
  ELSE UNCHANGED <<flag, torn>>

PowerFails ==
  /\ faults < Faults /\ faults' = faults + 1
  /\ Torn /\ TornFlag /\ Reset
  /\ UNCHANGED <<summed, vouched, net, toolVars>>

Lose(p) ==
  /\ faults < Faults /\ faults' = faults + 1
  /\ p \in net /\ net' = net \ {p}
  /\ UNCHANGED <<flashVars, boardVars, toolVars>>

(* No answer came for so long that none is under way.                      *)
Send ==
  /\ step # Done /\ ~(pc # "ready" /\ job = Current)
  /\ <<"request", Current>> \notin net /\ <<"answer", Current>> \notin net
  /\ net' = net \union {<<"request", Current>>}
  /\ UNCHANGED <<flashVars, boardVars, toolVars, faults>>

TakeAnswer(r) ==
  /\ Arrives(<<"answer", r>>)
  /\ step' = IF r = Current THEN step + 1 ELSE step
  /\ UNCHANGED <<flashVars, boardVars, image, again>>

(* All was answered, but fn5 still says "in bootloader!".                  *)
TryAgain ==
  /\ step = Done /\ net = {} /\ running = "bootloader" /\ pc = "ready"
  /\ step' = 0 /\ again' = TRUE
  /\ UNCHANGED <<flashVars, boardVars, net, image, faults>>

StartAfresh ==
  /\ faults < Faults /\ faults' = faults + 1
  /\ image' \in Images /\ step' = 0 /\ again' = TRUE
  /\ UNCHANGED <<flashVars, boardVars, net>>

----------------------------------------------------------------------------
UpgNext ==
  \/ Fn3 \/ PowerFails \/ Send \/ TryAgain \/ StartAfresh
  \/ \E r \in Requests : Leave(r) \/ Handle(r) \/ TakeAnswer(r)
  \/ \E p \in net : Lose(p)

UpgSpec == UpgInit /\ [][UpgNext]_upgVars

(* fn3 goes on, in the bootloader and in an application that is one of the *)
(* images, the tool sends, and while something is under way something      *)
(* arrives.                                                                *)
UpgFairSpec ==
  /\ UpgSpec
  /\ WF_upgVars(Fn3 \/ \E r \in Requests : Handle(r) \/ (flash \in Images /\ Leave(r)))
  /\ WF_upgVars(\E r \in Requests : TakeAnswer(r))
  /\ WF_upgVars(Send \/ TryAgain)

----------------------------------------------------------------------------
(* PROPERTIES                                                              *)

(* The variables keep their types, and the application never comes further *)
(* in fn3 than its reset.                                                  *)
UpgTypeOK ==
  /\ flash \subseteq Bits /\ flag \in {NotSet, IsSet, Erased}
  /\ running \in {"bootloader", "app"}
  /\ pc \in {"ready", "erase6", "erase7", "program", "reply", "start"}
  /\ job \in Requests /\ file \in Images \union {{}} /\ passed \in BOOLEAN
  /\ net \subseteq Packets /\ image \in Images /\ step \in 0 .. Done
  /\ faults \in 0 .. Faults /\ again \in BOOLEAN /\ torn \in BOOLEAN
  /\ writers \subseteq Images \union {{}} /\ summed \subseteq Bits
  /\ vouched \in Images \union {{}}
  /\ running = "app" => pc = "ready" /\ file = {}

(* Whatever is lost, repeated or cut off: the flag is set, and the         *)
(* application runs, only while the area is, bit by bit, what fn3 summed   *)
(* when the sums agreed, unless the erasure of the flag was cut off and    *)
(* left it set: nothing but the flag tells then that there is no image.    *)
OnlySummedRuns == flag = IsSet \/ running = "app" => flash = summed \/ torn

(* The sum is blind to damage that evens out, but not to an incomplete     *)
(* download: if since the erasure nothing but chunks of an image, in any   *)
(* order and any number of times, came into the area, and its sum was      *)
(* announced, then what runs is that image from the first to the last bit. *)
CompleteRuns ==
  \A i \in Images :
    running = "app" /\ writers \subseteq {i} /\ vouched = i => flash = i

(* Without a fault, an upgrade that was answered to the end is at its      *)
(* application, or about to be.                                            *)
FirstTime ==
  FlagErased /\ faults = 0 /\ step = Done =>
    flash = image /\ ~again /\ (running = "app" \/ pc = "start")

(* After the last fault, the tool and its user get the application to run, *)
(* if no damaged image is ever started: it need not answer any request.    *)
EndsInApp ==
  FlagErased /\ [](running = "app" => flash \in Images) => <>[](running = "app" /\ step = Done)
=============================================================================
