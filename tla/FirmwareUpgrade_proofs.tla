----------------------- MODULE FirmwareUpgrade_proofs -----------------------
(***************************************************************************)
(* Proofs about the firmware upgrade, for images of any number and size,   *)
(* for any number of faults, and whether or not the flag is erased with    *)
(* the image.                                                              *)
(***************************************************************************)
EXTENDS FirmwareUpgrade, FiniteSetTheorems, TLAPS

(* The flag and the program go together, and start_app is only set where   *)
(* it is about to be read.                                                 *)
FlagInv ==
  /\ running = "app" <=> flag = IsSet
  /\ passed => pc \in {"reply", "start"}
  /\ pc = "start" => passed

(* What was summed is in the area as long as it matters.                   *)
SummedInv ==
  passed \/ (flag = IsSet /\ ~torn) => flash = summed /\ Sum(summed) = Sum(vouched)

(* Where an erasure was cut off is damage, until the next is complete.     *)
TornInv == torn => FlagErased /\ {} \in writers

(* Programming chunks of an image takes none of its bits away.             *)
Kept == \A i \in Images : writers \subseteq {i} => i \subseteq flash

(* An erasure proceeds from sector to sector.                              *)
Half == pc = "erase7" => InSector(6) \subseteq flash

UpgInv == UpgTypeOK /\ FlagInv /\ SummedInv /\ Kept /\ Half /\ TornInv

----------------------------------------------------------------------------
LEMMA Bounds == Chunks \in Nat /\ Chunks # 0 /\ Faults \in Nat
BY UpgAssumption

LEMMA ImagesInBits == \A i \in Images : i \subseteq Bits /\ i # {}
BY UpgAssumption

(* Sums.                                                                   *)

LEMMA UnitsFinite ==
  ASSUME NEW area, area \subseteq Bits
  PROVE  IsFiniteSet(Units(area))
<1>1. IsFiniteSet(1 .. Chunks) /\ IsFiniteSet(1 .. 128)
  <2>1. Chunks \in Int /\ 1 \in Int /\ 128 \in Int
    BY Bounds
  <2>2. QED
    BY ONLY <2>1, FS_Interval
<1>2. IsFiniteSet(BitValues)
  BY <1>1, FS_Subset, UpgAssumption
<1>3. IsFiniteSet(Bits)
  BY <1>1, <1>2, FS_Product DEF Bits
<1>4. IsFiniteSet(area)
  BY <1>3, FS_Subset
<1>5. IsFiniteSet(area \X (1 .. 128))
  BY <1>1, <1>4, FS_Product
<1>6. Units(area) \subseteq area \X (1 .. 128)
  BY DEF Units
<1>7. QED
  BY <1>5, <1>6, FS_Subset

(* Of two areas of the same sum, neither is a part of the other.           *)
LEMMA SumStrict ==
  ASSUME NEW area, area \subseteq Bits, NEW part, part \subseteq area, Sum(part) = Sum(area)
  PROVE  part = area
<1>1. Units(part) \subseteq Units(area)
  BY DEF Units
<1>2. Units(part) = Units(area)
  BY <1>1, UnitsFinite, FS_Subset DEF Sum
<1>3. ASSUME NEW b \in area PROVE b \in part
  <2>1. b[2] \in 1 .. 128
    BY UpgAssumption DEF Bits
  <2>2. <<b, 1>> \in area \X (1 .. 128) /\ 1 <= b[2]
    BY <2>1
  <2>3. <<b, 1>> \in Units(area)
    BY <2>2 DEF Units
  <2>4. QED
    BY <1>2, <2>3 DEF Units
<1>4. QED
  BY <1>3

----------------------------------------------------------------------------
LEMMA UpgInitInv == UpgInit => UpgInv
<1> SUFFICES ASSUME UpgInit PROVE UpgInv
  OBVIOUS
<1>1. UpgTypeOK
  <2>1. job \in Requests /\ step \in 0 .. Done /\ faults \in 0 .. Faults
    BY Bounds DEF UpgInit, Requests, Done
  <2>2. job.image \in Images
    BY <2>1 DEF Requests
  <2>3. QED
    BY <2>1, <2>2, ImagesInBits DEF UpgInit, UpgTypeOK, NotSet, IsSet, Erased
<1>2. FlagInv
  BY DEF UpgInit, FlagInv, IsSet, Erased
<1>3. SummedInv
  BY DEF UpgInit, SummedInv, IsSet, Erased
<1>4. Kept
  BY UpgAssumption DEF UpgInit, Kept
<1>5. Half /\ TornInv
  BY DEF UpgInit, Half, TornInv
<1>6. QED
  BY <1>1, <1>2, <1>3, <1>4, <1>5 DEF UpgInv

LEMMA FaultsBounded ==
  ASSUME faults \in 0 .. Faults, UNCHANGED faults \/ (faults < Faults /\ faults' = faults + 1)
  PROVE  faults' \in 0 .. Faults
BY Bounds

LEMMA ArrivesTypes ==
  ASSUME UpgTypeOK, NEW p, Arrives(p)
  PROVE  p \in Packets /\ net' \subseteq Packets /\ faults' \in 0 .. Faults
<1>1. p \in Packets /\ net' \subseteq Packets
  BY DEF UpgTypeOK, Arrives
<1>2. faults' \in 0 .. Faults
  BY FaultsBounded DEF UpgTypeOK, Arrives
<1>3. QED
  BY <1>1, <1>2

LEMMA PacketOf ==
  ASSUME NEW r \in Requests
  PROVE  <<"request", r>> \in Packets /\ <<"answer", r>> \in Packets
BY DEF Packets

LEMMA ProgramFlagTypes ==
  ASSUME UpgTypeOK, NEW value \in {NotSet, IsSet}, ProgramFlag(value)
  PROVE  flag' \in {NotSet, IsSet} /\ (flag' = IsSet => value = IsSet)
BY DEF ProgramFlag, NotSet, IsSet

(* An erasure that is cut off leaves damage, and what else is cut off      *)
(* leaves what was there.                                                  *)
LEMMA TornDamages ==
  ASSUME Torn
  PROVE  /\ pc = "erase7" => {} \in writers'
         /\ \A w \in writers : w \in writers'
BY DEF Torn

LEMMA ChunkOfRequest ==
  ASSUME NEW r \in Requests
  PROVE  r.image \in Images /\ r.image \subseteq Bits /\ r.step \in 0 .. Chunks + 1
BY ImagesInBits DEF Requests

(* Torn takes no bit of the image it was programming.                      *)
LEMMA TornKeeps ==
  ASSUME UpgInv, Torn
  PROVE  flash' \subseteq Bits /\ writers' \subseteq Images \union {{}} /\ Kept'
<1>0. flash \subseteq Bits /\ writers \subseteq Images \union {{}} /\ job \in Requests /\ Kept
  BY DEF UpgInv, UpgTypeOK
<1>1. CASE pc \in {"erase6", "erase7"}
  <2>1. PICK some \in SUBSET InSector(IF pc = "erase6" THEN 6 ELSE 7) :
          /\ writers' = writers \union {{}}
          /\ flash' = (flash \ InSector(IF pc = "erase6" THEN 6 ELSE 7)) \union some
    BY <1>1 DEF Torn
  <2>2. InSector(IF pc = "erase6" THEN 6 ELSE 7) \subseteq Bits
    BY DEF InSector
  <2>3. Kept'
    BY <2>1, UpgAssumption DEF Kept
  <2>4. QED
    BY <1>0, <2>1, <2>2, <2>3
<1>2. CASE pc = "program"
  <2>1. PICK some \in SUBSET (flash \ Programmed(job.image, job.step - 1)) :
          writers' = writers \union {job.image} /\ flash' = flash \ some
    BY <1>2 DEF Torn
  <2>2. Kept'
    BY <1>0, <2>1 DEF Kept, Programmed
  <2>3. QED
    BY <1>0, <2>1, <2>2, ChunkOfRequest
<1>3. CASE pc \notin {"erase6", "erase7", "program"}
  BY <1>0, <1>3 DEF Torn, Kept
<1>4. QED
  BY <1>1, <1>2, <1>3

LEMMA UpgStepInv == UpgInv /\ [UpgNext]_upgVars => UpgInv'
<1> SUFFICES ASSUME UpgInv, [UpgNext]_upgVars PROVE UpgInv'
  OBVIOUS
<1>0. UpgTypeOK /\ FlagInv /\ SummedInv /\ Kept /\ Half /\ TornInv
  BY DEF UpgInv
<1>1. ASSUME NEW r \in Requests, Leave(r) PROVE UpgInv'
  <2>1. /\ flag' \in {NotSet, IsSet} /\ flag' # IsSet /\ running' = "bootloader" /\ pc' = "ready"
        /\ file' = {} /\ passed' = FALSE /\ torn' = FALSE
        /\ UNCHANGED <<flash, writers, summed, vouched, job, image, step, again>>
    BY <1>0, <1>1, ProgramFlagTypes DEF Leave, Reset, ProgramFlag, toolVars, NotSet, IsSet
  <2>2. net' \subseteq Packets /\ faults' \in 0 .. Faults
    BY <1>0, <1>1, ArrivesTypes DEF Leave
  <2>3. QED
    BY <1>0, <2>1, <2>2 DEF UpgInv, UpgTypeOK, FlagInv, SummedInv, Kept, Half, TornInv
<1>2. ASSUME NEW r \in Requests, Handle(r) PROVE UpgInv'
  <2>1. /\ running = "bootloader" /\ pc = "ready" /\ job' = r
        /\ pc' \in {"erase6", "reply", "program"}
        /\ file' \in Images \union {{}} /\ UNCHANGED <<flashVars, running, passed, toolVars>>
    BY <1>0, <1>2, ChunkOfRequest DEF Handle, PlaceOf, UpgTypeOK
  <2>2. net' \subseteq Packets /\ faults' \in 0 .. Faults
    BY <1>0, <1>2, ArrivesTypes DEF Handle
  <2>3. QED
    BY <1>0, <2>1, <2>2 DEF UpgInv, UpgTypeOK, FlagInv, SummedInv, Kept, Half, TornInv, flashVars, toolVars
<1>3. CASE EraseSector6
  <2>1. InSector(6) \subseteq Bits
    BY DEF InSector
  <2>2. running = "bootloader" /\ flag # IsSet /\ ~passed
    BY <1>0, <1>3 DEF EraseSector6, FlagInv, UpgTypeOK
  <2>3. QED
    BY <1>0, <1>3, <2>1, <2>2
    DEF EraseSector6, UpgInv, UpgTypeOK, FlagInv, SummedInv, Kept, Half, TornInv, toolVars
<1>4. CASE EraseSector7
  <2>1. running = "bootloader" /\ flag # IsSet /\ ~passed
    BY <1>0, <1>4 DEF EraseSector7, FlagInv, UpgTypeOK
  <2>2. /\ flag' \in {flag, Erased} /\ flag' # IsSet
        /\ ~torn' /\ torn' \in BOOLEAN
    <3>1. /\ flag' = IF FlagErased THEN Erased ELSE flag
          /\ torn' = IF FlagErased THEN FALSE ELSE torn
      BY <1>4 DEF EraseSector7
    <3>2. torn' = FALSE
      <4>1. CASE FlagErased
        BY <3>1, <4>1
      <4>2. CASE ~FlagErased
        <5>1. torn' = torn /\ torn = FALSE
          BY <1>0, <3>1, <4>2, Zenon DEF UpgTypeOK, TornInv
        <5>2. QED
          BY <5>1
      <4>3. QED
        BY <4>1, <4>2
    <3>3. flag' \in {flag, Erased} /\ flag' # IsSet
      BY <2>1, <3>1 DEF IsSet, Erased
    <3>4. QED
      BY <3>2, <3>3
  <2>3. /\ flash' = flash \union InSector(7) /\ InSector(7) \subseteq Bits /\ pc' = "reply"
        /\ UNCHANGED <<summed, vouched, running, job, file, passed, net, toolVars, faults>>
        /\ writers' = {}
    BY <1>4 DEF EraseSector7, InSector
  <2>4. Kept'
    <3>1. Bits \subseteq flash'
      <4>1. flash' = flash \union InSector(7) /\ InSector(6) \subseteq flash
        BY <1>0, <1>4 DEF EraseSector7, Half
      <4>2. Bits \subseteq InSector(6) \union InSector(7)
        BY DEF InSector
      <4>3. QED
        BY <4>1, <4>2
    <3>2. QED
      BY <3>1, ImagesInBits DEF Kept
  <2>5. QED
    BY <1>0, <2>1, <2>2, <2>3, <2>4 DEF UpgInv, UpgTypeOK, FlagInv, SummedInv, Half, TornInv, toolVars
<1>5. CASE Program
  <2>1. running = "bootloader" /\ flag # IsSet /\ ~passed /\ job \in Requests
    BY <1>0, <1>5 DEF Program, FlagInv, UpgTypeOK
  <2>2. /\ flash' = flash \ (InChunk(job.step - 1) \ job.image) /\ pc' = "reply"
        /\ writers' = writers \union {job.image}
        /\ UNCHANGED <<flag, torn, running, job, file, net, toolVars, faults>>
        /\ passed' = (IsLast(job) /\ Sum(flash') = Sum(file))
        /\ summed' = IF passed' THEN flash' ELSE summed
        /\ vouched' = IF passed' THEN file ELSE vouched
    BY <1>5 DEF Program, Judge, Programmed
  <2>3. Kept'
    BY <1>0, <2>2 DEF Kept
  <2>4. SummedInv'
    BY <2>1, <2>2 DEF SummedInv
  <2>5. UpgTypeOK'
    <3>1. passed' \in BOOLEAN /\ flash' \subseteq Bits /\ writers' \subseteq Images \union {{}}
      BY <1>0, <2>1, <2>2, ChunkOfRequest DEF UpgTypeOK, IsLast
    <3>2. summed' \subseteq Bits /\ vouched' \in Images \union {{}}
      BY <1>0, <2>2, <3>1 DEF UpgTypeOK
    <3>3. QED
      BY <1>0, <2>1, <2>2, <3>1, <3>2 DEF UpgTypeOK, toolVars
  <2>6. FlagInv'
    BY <1>0, <2>1, <2>2 DEF FlagInv
  <2>7. Half' /\ TornInv'
    BY <1>0, <2>2 DEF Half, TornInv
  <2>8. QED
    BY <2>3, <2>4, <2>5, <2>6, <2>7 DEF UpgInv
<1>6. CASE Reply
  <2>1. running = "bootloader"
    BY <1>0, <1>6 DEF Reply, UpgTypeOK
  <2>2. /\ net' = net \union {<<"answer", job>>} /\ pc' = IF passed THEN "start" ELSE "ready"
        /\ UNCHANGED <<flashVars, running, job, file, passed, toolVars, faults>>
    BY <1>6 DEF Reply
  <2>3. net' \subseteq Packets
    BY <1>0, <2>2, PacketOf DEF UpgTypeOK
  <2>4. QED
    BY <1>0, <2>1, <2>2, <2>3
    DEF UpgInv, UpgTypeOK, FlagInv, SummedInv, Kept, Half, TornInv, flashVars, toolVars
<1>7. CASE StartApp
  <2>1. /\ passed /\ flag' \in {NotSet, IsSet} /\ pc' = "ready" /\ file' = {} /\ passed' = FALSE
        /\ running' = IF flag' = IsSet THEN "app" ELSE "bootloader"
        /\ torn' = FALSE
        /\ UNCHANGED <<flash, writers, summed, vouched, job, net, toolVars, faults>>
    BY <1>0, <1>7, ProgramFlagTypes DEF StartApp, Reset, ProgramFlag, FlagInv
  <2>2. QED
    BY <1>0, <2>1 DEF UpgInv, UpgTypeOK, FlagInv, SummedInv, Kept, Half, TornInv, toolVars
<1>8. CASE PowerFails
  <2>1. /\ Torn /\ TornFlag
        /\ running' = IF flag' = IsSet THEN "app" ELSE "bootloader"
        /\ pc' = "ready" /\ file' = {} /\ passed' = FALSE /\ faults' \in 0 .. Faults
        /\ UNCHANGED <<summed, vouched, job, net, toolVars>>
    BY <1>0, <1>8, FaultsBounded DEF PowerFails, Reset, UpgTypeOK
  <2>2. flash' \subseteq Bits /\ writers' \subseteq Images \union {{}} /\ Kept'
    BY <2>1, TornKeeps
  <2>3. flag' \in {NotSet, IsSet, Erased} /\ torn' \in BOOLEAN
    BY <1>0, <2>1 DEF UpgTypeOK, TornFlag
  <2>4. SummedInv'
    <3>1. SUFFICES ASSUME flag' = IsSet, ~torn'
                   PROVE  flash' = summed' /\ Sum(summed') = Sum(vouched')
      BY <2>1 DEF SummedInv
    <3>2. flag = IsSet /\ ~torn
      BY <2>1, <3>1 DEF TornFlag
    <3>3. UNCHANGED flash
      BY <1>0, <2>1, <3>2 DEF Torn, FlagInv, UpgTypeOK
    <3>4. QED
      BY <1>0, <2>1, <3>2, <3>3 DEF SummedInv
  <2>5. UpgTypeOK' /\ FlagInv' /\ Half'
    BY <1>0, <2>1, <2>2, <2>3 DEF UpgTypeOK, FlagInv, Half, toolVars
  <2>6. TornInv'
    BY <1>0, <2>1, TornDamages DEF TornFlag, TornInv
  <2>7. QED
    BY <2>2, <2>4, <2>5, <2>6 DEF UpgInv
<1>9. ASSUME NEW p \in net, Lose(p) PROVE UpgInv'
  BY <1>0, <1>9, FaultsBounded
  DEF Lose, UpgInv, UpgTypeOK, FlagInv, SummedInv, Kept, Half, TornInv, flashVars, boardVars, toolVars
<1>10. CASE Send
  <2>1. Current \in Requests
    <3>1. image \in Images /\ step \in 0 .. Done /\ step # Done
      BY <1>0, <1>10 DEF Send, UpgTypeOK
    <3>2. step \in 0 .. Chunks + 1
      BY <3>1, Bounds DEF Done
    <3>3. QED
      BY <3>1, <3>2 DEF Current, Requests
  <2>2. net' \subseteq Packets /\ UNCHANGED <<flashVars, boardVars, toolVars, faults>>
    BY <1>0, <1>10, <2>1, PacketOf DEF Send, UpgTypeOK
  <2>3. QED
    BY <1>0, <2>2
    DEF UpgInv, UpgTypeOK, FlagInv, SummedInv, Kept, Half, TornInv, flashVars, boardVars, toolVars
<1>11. ASSUME NEW r \in Requests, TakeAnswer(r) PROVE UpgInv'
  <2>1. net' \subseteq Packets /\ faults' \in 0 .. Faults
    BY <1>0, <1>11, ArrivesTypes DEF TakeAnswer
  <2>2. step' \in 0 .. Done
    <3>1. r = Current => step = r.step
      BY DEF Current
    <3>2. step' = IF r = Current THEN step + 1 ELSE step
      BY <1>11 DEF TakeAnswer
    <3>3. step \in 0 .. Done
      BY <1>0 DEF UpgTypeOK
    <3>4. QED
      BY <3>1, <3>2, <3>3, ChunkOfRequest, Bounds DEF Done
  <2>3. UNCHANGED <<flashVars, boardVars, image, again>>
    BY <1>11 DEF TakeAnswer
  <2>4. QED
    BY <1>0, <2>1, <2>2, <2>3
    DEF UpgInv, UpgTypeOK, FlagInv, SummedInv, Kept, Half, TornInv, flashVars, boardVars
<1>12. CASE TryAgain \/ StartAfresh
  <2>1. /\ step' \in 0 .. Done /\ image' \in Images /\ again' \in BOOLEAN /\ faults' \in 0 .. Faults
        /\ UNCHANGED <<flashVars, boardVars, net>>
    <3>1. 0 \in 0 .. Done
      BY Bounds DEF Done
    <3>2. QED
      BY <1>0, <1>12, <3>1, FaultsBounded DEF TryAgain, StartAfresh, UpgTypeOK
  <2>2. QED
    BY <1>0, <2>1 DEF UpgInv, UpgTypeOK, FlagInv, SummedInv, Kept, Half, TornInv, flashVars, boardVars
<1>13. CASE UNCHANGED upgVars
  BY <1>0, <1>13
  DEF UpgInv, UpgTypeOK, FlagInv, SummedInv, Kept, Half, TornInv, upgVars, flashVars, boardVars, toolVars
<1>14. QED
  BY <1>1, <1>2, <1>3, <1>4, <1>5, <1>6, <1>7, <1>8, <1>9, <1>10, <1>11, <1>12, <1>13
  DEF UpgNext, Fn3

(* UpgInv is an invariant of the upgrade.                                  *)
THEOREM UpgCorrect == UpgSpec => []UpgInv
BY UpgInitInv, UpgStepInv, PTL DEF UpgSpec

(* The variables keep their types, and the application never comes further *)
(* in fn3 than its reset.                                                  *)
THEOREM UpgTypeCorrect == UpgSpec => []UpgTypeOK
<1>1. UpgInv => UpgTypeOK
  BY DEF UpgInv
<1>2. QED
  BY <1>1, UpgCorrect, PTL

(* The flag of fn3 is set, and the application runs, only while the area   *)
(* is what was summed when the sums agreed, whatever the network and the   *)
(* power do, unless the power failed during the erasure of the flag and    *)
(* left it set.                                                            *)
THEOREM UpgOnlySummedRuns == UpgSpec => []OnlySummedRuns
<1>1. UpgInv => OnlySummedRuns
  BY DEF UpgInv, OnlySummedRuns, FlagInv, SummedInv
<1>2. QED
  BY <1>1, UpgCorrect, PTL

(* The sum of fn3 lets no incomplete download start: if only chunks of the *)
(* announced image were programmed since the erasure, the application that *)
(* runs is that image.                                                     *)
THEOREM UpgCompleteRuns == UpgSpec => []CompleteRuns
<1>1. UpgInv => CompleteRuns
  <2> SUFFICES ASSUME UpgInv, NEW i \in Images,
                      running = "app", writers \subseteq {i}, vouched = i
               PROVE  flash = i
    BY DEF CompleteRuns
  <2>1. i \subseteq flash /\ flash \subseteq Bits
    BY DEF UpgInv, Kept, UpgTypeOK
  <2>2. ~torn
    BY ImagesInBits DEF UpgInv, TornInv
  <2>3. Sum(i) = Sum(flash)
    BY <2>2 DEF UpgInv, FlagInv, SummedInv
  <2>4. QED
    BY <2>1, <2>3, SumStrict
<1>2. QED
  BY <1>1, UpgCorrect, PTL

----------------------------------------------------------------------------
(* An upgrade without faults.                                              *)

(* How many of the tool's requests the board has done.                     *)
Did == IF pc = "reply" \/ <<"answer", Current>> \in net THEN step + 1 ELSE step

(* Erased, and the chunks of k steps of an image programmed.               *)
Filled(i, k) == {b \in Bits : b[1] <= k - 2 => b \in i}

(* Tool and board take turns.                                              *)
Turns ==
  \/ net = {<<"request", Current>>} /\ step # Done /\ pc = "ready"
  \/ net = {<<"answer", Current>>} /\ step # Done /\ pc \in {"ready", "start"}
  \/ net = {} /\ (pc \in {"ready", "start"} \/ (job = Current /\ step # Done))

Places ==
  /\ pc \in {"erase6", "erase7"} => step = 0
  /\ pc = "program" => step >= 2
  /\ pc = "start" \/ (pc = "reply" /\ passed) => Did = Done

(* What the board has done is in its flash and its memory.                 *)
Progress ==
  /\ running = "app" => Did = 0 \/ Did = Done
  /\ Did >= 1 => flash = Filled(image, Did)
  /\ Did >= 1 /\ running = "bootloader" => flag = Erased
  /\ Did >= 2 /\ running = "bootloader" => file = image
  /\ Did = Done => running = "app" \/ pc = "start" \/ (pc = "reply" /\ passed)

Clean == FlagErased /\ faults = 0 => Turns /\ Places /\ Progress /\ ~again

LEMMA FilledAll ==
  ASSUME NEW i \in Images
  PROVE  Filled(i, Done) = i
BY Bounds, ImagesInBits DEF Filled, Bits, Done

LEMMA CleanInit == UpgInit => Clean
<1> SUFFICES ASSUME UpgInit PROVE Turns /\ Places /\ Progress /\ ~again
  BY DEF Clean
<1>1. Did = 0 /\ step = 0 /\ net = {} /\ pc = "ready"
  BY DEF UpgInit, Did
<1>2. Done # 0 /\ Done \in Nat
  BY Bounds DEF Done
<1>3. QED
  BY <1>1, <1>2 DEF UpgInit, Turns, Places, Progress

LEMMA CleanStep == UpgInv /\ Clean /\ [UpgNext]_upgVars => Clean'
<1> SUFFICES ASSUME UpgInv, Clean, [UpgNext]_upgVars, FlagErased, faults' = 0
             PROVE  (Turns /\ Places /\ Progress /\ ~again)'
  BY DEF Clean
<1>0. /\ FlagInv /\ Half /\ flash \subseteq Bits /\ job \in Requests /\ image \in Images
      /\ step \in 0 .. Done /\ faults \in 0 .. Faults
      /\ pc \in {"ready", "erase6", "erase7", "program", "reply", "start"}
      /\ running \in {"bootloader", "app"} /\ (running = "app" => pc = "ready")
      /\ passed \in BOOLEAN /\ again \in BOOLEAN
  BY DEF UpgInv, UpgTypeOK
<1>a. Done = Chunks + 2 /\ Done \in Nat /\ Done >= 3 /\ step \in Nat /\ faults \in Nat
  <2>1. Done = Chunks + 2 /\ Done \in Nat /\ Done >= 3
    BY Bounds DEF Done
  <2>2. \A n \in Nat : \A k \in 0 .. n : k \in Nat
    OBVIOUS
  <2>3. QED
    BY <1>0, <2>1, <2>2, Bounds
<1>b. \A r : r = Current => r.step = step /\ r.image = image
  BY DEF Current
<1>1. ASSUME NEW p, Arrives(p) PROVE faults = 0 /\ p \in net /\ net' = net \ {p}
  BY <1>a, <1>1 DEF Arrives
<1>2. ASSUME faults = 0 PROVE Turns /\ Places /\ Progress /\ ~again
  BY <1>2 DEF Clean
<1>3. ASSUME NEW r \in Requests, Leave(r) PROVE (Turns /\ Places /\ Progress /\ ~again)'
  <2>1. /\ running = "app" /\ pc = "ready" /\ <<"request", r>> \in net
        /\ net' = net \ {<<"request", r>>} /\ faults = 0
        /\ flag' # IsSet /\ pc' = "ready" /\ passed' = FALSE /\ running' = "bootloader"
        /\ UNCHANGED <<image, step, again>>
    BY <1>1, <1>3 DEF Leave, Reset, ProgramFlag, NotSet, IsSet, toolVars
  <2>2. Turns /\ Places /\ Progress /\ ~again
    BY <1>2, <2>1
  <2>3. net = {<<"request", Current>>} /\ step # Done /\ net' = {} /\ Current' = Current
    BY <2>1, <2>2 DEF Turns, Current
  <2>4. Did = step /\ step = 0 /\ Did' = 0
    BY <2>1, <2>2, <2>3, <1>a DEF Did, Progress
  <2>5. QED
    BY <2>1, <2>2, <2>3, <2>4, <1>a DEF Turns, Places, Progress
<1>4. ASSUME NEW r \in Requests, Handle(r) PROVE (Turns /\ Places /\ Progress /\ ~again)'
  <2>1. /\ running = "bootloader" /\ pc = "ready" /\ <<"request", r>> \in net
        /\ net' = net \ {<<"request", r>>} /\ faults = 0
        /\ job' = r /\ pc' = PlaceOf(r) /\ file' = (IF r.step = 1 THEN r.image ELSE file)
        /\ UNCHANGED <<flash, flag, running, passed, image, step, again>>
    BY <1>1, <1>4 DEF Handle, flashVars, toolVars
  <2>2. Turns /\ Places /\ Progress /\ ~again /\ ~passed
    BY <1>0, <1>2, <2>1 DEF FlagInv
  <2>3. /\ net = {<<"request", Current>>} /\ step # Done /\ r = Current
        /\ net' = {} /\ Current' = Current
    BY <2>1, <2>2 DEF Turns, Current
  <2>4. /\ Did = step /\ Did' = IF step = 1 THEN step + 1 ELSE step
        /\ pc' = IF step = 0 THEN "erase6" ELSE IF step = 1 THEN "reply" ELSE "program"
        /\ file' = IF step = 1 THEN image ELSE file
    <3>1. r.step = step /\ r.image = image
      BY <2>3, <1>b
    <3>2. /\ pc' = IF step = 0 THEN "erase6" ELSE IF step = 1 THEN "reply" ELSE "program"
          /\ file' = IF step = 1 THEN image ELSE file
      BY <2>1, <3>1 DEF PlaceOf
    <3>3. Did = step
      BY <2>1, <2>3 DEF Did
    <3>4. Did' = IF pc' = "reply" THEN step + 1 ELSE step
      BY <2>1, <2>3 DEF Did
    <3>5. pc' = "reply" <=> step = 1
      BY <3>2
    <3>6. QED
      BY <3>2, <3>3, <3>4, <3>5
  <2>5. Turns' /\ Places'
    <3>1. pc' = "program" => step >= 2
      BY <2>4, <1>a
    <3>2. pc' # "start" /\ ~passed' /\ (pc' \in {"erase6", "erase7"} => step = 0)
      BY <2>1, <2>2, <2>4
    <3>3. QED
      BY <2>1, <2>3, <3>1, <3>2 DEF Turns, Places
  <2>6. CASE step = 1
    <3>1. Filled(image, 1) = Filled(image, 2)
      BY Bounds DEF Filled, Bits
    <3>2. flash = Filled(image, 1)
      BY <2>2, <2>4, <2>6 DEF Progress
    <3>3. QED
      BY <2>1, <2>2, <2>4, <2>5, <2>6, <3>1, <3>2, <1>a DEF Progress
  <2>7. CASE step # 1
    BY <2>1, <2>2, <2>3, <2>4, <2>5, <2>7, <1>a DEF Progress
  <2>8. QED
    BY <2>6, <2>7
<1>5. CASE EraseSector6 \/ EraseSector7
  <2>1. /\ pc \in {"erase6", "erase7"} /\ faults = 0
        /\ UNCHANGED <<net, image, step, again, running, job, file, passed>>
    BY <1>5 DEF EraseSector6, EraseSector7, toolVars
  <2>2. Turns /\ Places /\ Progress /\ ~again /\ ~passed /\ running = "bootloader"
    BY <1>0, <1>2, <2>1 DEF FlagInv
  <2>3. net = {} /\ job = Current /\ step = 0 /\ Current' = Current
    BY <2>1, <2>2 DEF Turns, Places, Current
  <2>4. CASE EraseSector6
    <3>1. pc' = "erase7" /\ Did' = 0
      BY <2>1, <2>3, <2>4 DEF EraseSector6, Did
    <3>2. Turns' /\ Places'
      BY <2>1, <2>2, <2>3, <3>1, <1>a DEF Turns, Places
    <3>3. Progress' /\ ~again'
      BY <1>0, <2>1, <2>2, <3>1, <1>a DEF Progress
    <3>4. QED
      BY <3>2, <3>3
  <2>5. CASE EraseSector7
    <3>1. pc' = "reply" /\ flag' = Erased
      BY <2>5 DEF EraseSector7
    <3>a. Did' = 1
      <4>1. Did' = step + 1
        BY <2>1, <3>1 DEF Did
      <4>2. QED
        BY <2>3, <4>1
    <3>2. flash' = Bits
      <4>1. flash' = flash \union InSector(7) /\ InSector(6) \subseteq flash
        BY <1>0, <2>5 DEF EraseSector7, Half
      <4>2. Bits = InSector(6) \union InSector(7)
        BY DEF InSector
      <4>3. QED
        BY <1>0, <4>1, <4>2
    <3>3. Filled(image, 1) = Bits
      BY Bounds DEF Filled, Bits
    <3>4. Turns' /\ Places'
      BY <2>1, <2>2, <2>3, <3>1 DEF Turns, Places
    <3>5. Progress' /\ ~again'
      BY <1>0, <2>1, <2>2, <3>1, <3>a, <3>2, <3>3, <1>a DEF Progress
    <3>6. QED
      BY <3>4, <3>5
  <2>6. QED
    BY <1>5, <2>4, <2>5
<1>6. CASE Program
  <2>1. /\ pc = "program" /\ faults = 0 /\ pc' = "reply"
        /\ flash' = flash \ (InChunk(job.step - 1) \ job.image)
        /\ passed' = (IsLast(job) /\ Sum(flash') = Sum(file))
        /\ UNCHANGED <<net, image, step, again, running, job, file, flag>>
    BY <1>6 DEF Program, Judge, Programmed, toolVars
  <2>2. Turns /\ Places /\ Progress /\ ~again /\ ~passed /\ running = "bootloader"
    BY <1>0, <1>2, <2>1 DEF FlagInv
  <2>3. /\ net = {} /\ job = Current /\ step >= 2 /\ step # Done /\ Current' = Current
        /\ Did = step /\ Did' = step + 1
    BY <2>1, <2>2 DEF Turns, Places, Current, Did
  <2>4. job.step = step /\ job.image = image
    BY <2>3, <1>b
  <2>5. flash' = Filled(image, step + 1)
    <3>1. flash = Filled(image, step)
      BY <2>2, <2>3, <1>a DEF Progress
    <3>2. Filled(image, step) \ (InChunk(step - 1) \ image) = Filled(image, step + 1)
      BY <1>a, Bounds DEF Filled, InChunk, Bits
    <3>3. QED
      BY <2>1, <2>4, <3>1, <3>2
  <2>6. flag = Erased /\ file = image
    BY <2>2, <2>3, <1>a DEF Progress
  <2>7. passed' <=> Did' = Done
    <3>1. IsLast(job) <=> step + 1 = Done
      BY <2>4, <1>a, Bounds DEF IsLast
    <3>2. step + 1 = Done => flash' = image
      BY <1>0, <2>5, FilledAll
    <3>3. QED
      BY <2>1, <2>3, <2>6, <3>1, <3>2
  <2>8. QED
    BY <2>1, <2>2, <2>3, <2>5, <2>6, <2>7, <1>a DEF Turns, Places, Progress
<1>7. CASE Reply
  <2>1. /\ pc = "reply" /\ faults = 0 /\ net' = net \union {<<"answer", job>>}
        /\ pc' = (IF passed THEN "start" ELSE "ready")
        /\ UNCHANGED <<flash, image, step, again, running, job, file, flag, passed>>
    BY <1>7 DEF Reply, flashVars, toolVars
  <2>2. Turns /\ Places /\ Progress /\ ~again /\ running = "bootloader"
    BY <1>0, <1>2, <2>1
  <2>3. /\ net = {} /\ job = Current /\ step # Done /\ Current' = Current
        /\ net' = {<<"answer", Current>>} /\ Did = step + 1 /\ Did' = step + 1
    BY <2>1, <2>2 DEF Turns, Current, Did
  <2>4. QED
    BY <2>1, <2>2, <2>3, <1>0, <1>a DEF Turns, Places, Progress
<1>8. CASE StartApp
  <2>1. /\ pc = "start" /\ faults = 0 /\ ProgramFlag(IsSet) /\ pc' = "ready" /\ passed' = FALSE
        /\ running' = (IF flag' = IsSet THEN "app" ELSE "bootloader")
        /\ UNCHANGED <<flash, image, step, again, job, net>>
    BY <1>8 DEF StartApp, Reset, toolVars
  <2>2. Turns /\ Places /\ Progress /\ ~again /\ running = "bootloader"
    BY <1>0, <1>2, <2>1
  <2>3. Did = Done /\ Current' = Current /\ Did' = Did
    BY <2>1, <2>2 DEF Places, Current, Did
  <2>4. running' = "app"
    BY <2>1, <2>2, <2>3, <1>a DEF Progress, ProgramFlag, IsSet, NotSet, Erased
  <2>5. QED
    BY <2>1, <2>2, <2>3, <2>4, <1>a DEF Turns, Places, Progress
<1>9. ASSUME PowerFails \/ StartAfresh \/ \E p \in net : Lose(p) PROVE FALSE
  <2>1. faults' = faults + 1
    BY <1>9 DEF PowerFails, StartAfresh, Lose
  <2>2. QED
    BY <1>a, <2>1
<1>10. CASE Send
  <2>1. /\ faults = 0 /\ step # Done /\ net' = net \union {<<"request", Current>>}
        /\ <<"request", Current>> \notin net /\ <<"answer", Current>> \notin net
        /\ ~(pc # "ready" /\ job = Current)
        /\ UNCHANGED <<flash, flag, running, pc, job, file, passed, image, step, again>>
    BY <1>10 DEF Send, flashVars, boardVars, toolVars
  <2>2. Turns /\ Places /\ Progress /\ ~again
    BY <1>2, <2>1
  <2>3. net = {} /\ Current' = Current /\ net' = {<<"request", Current>>}
    BY <2>1, <2>2 DEF Turns, Current
  <2>4. pc = "ready" /\ Did = step /\ Did' = step
    BY <2>1, <2>2, <2>3 DEF Turns, Places, Did
  <2>5. QED
    BY <2>1, <2>2, <2>3, <2>4 DEF Turns, Places, Progress
<1>11. ASSUME NEW r \in Requests, TakeAnswer(r) PROVE (Turns /\ Places /\ Progress /\ ~again)'
  <2>1. /\ faults = 0 /\ <<"answer", r>> \in net /\ net' = net \ {<<"answer", r>>}
        /\ step' = (IF r = Current THEN step + 1 ELSE step)
        /\ UNCHANGED <<flash, flag, running, pc, job, file, passed, image, again>>
    BY <1>1, <1>11 DEF TakeAnswer, flashVars, boardVars
  <2>2. Turns /\ Places /\ Progress /\ ~again
    BY <1>2, <2>1
  <2>3. net = {<<"answer", Current>>} /\ r = Current /\ pc \in {"ready", "start"} /\ net' = {}
    BY <2>1, <2>2 DEF Turns
  <2>4. step' = step + 1 /\ Did = step + 1 /\ Did' = Did
    BY <2>1, <2>3 DEF Did
  <2>5. QED
    BY <2>1, <2>2, <2>3, <2>4 DEF Turns, Places, Progress
<1>12. ASSUME TryAgain PROVE FALSE
  <2>1. /\ faults = 0 /\ step = Done /\ net = {} /\ running = "bootloader" /\ pc = "ready"
    BY <1>12 DEF TryAgain
  <2>2. Did = Done /\ Progress
    BY <1>2, <2>1 DEF Did
  <2>3. QED
    BY <2>1, <2>2 DEF Progress
<1>13. CASE UNCHANGED upgVars
  <2>1. Turns /\ Places /\ Progress /\ ~again /\ Did' = Did
    BY <1>2, <1>13 DEF upgVars, flashVars, boardVars, toolVars, Did, Current
  <2>2. QED
    BY <2>1, <1>13
    DEF upgVars, flashVars, boardVars, toolVars, Turns, Places, Progress, Filled, Current
<1>14. QED
  BY <1>3, <1>4, <1>5, <1>6, <1>7, <1>8, <1>9, <1>10, <1>11, <1>12, <1>13 DEF UpgNext, Fn3

(* An upgrade without faults succeeds at the first attempt: when the tool  *)
(* has its last answer, the board holds the image and runs it or is about  *)
(* to.                                                                     *)
THEOREM UpgFirstTime == UpgSpec => []FirstTime
<1>1. UpgInit => UpgInv /\ Clean
  BY UpgInitInv, CleanInit
<1>2. UpgInv /\ Clean /\ [UpgNext]_upgVars => (UpgInv /\ Clean)'
  BY UpgStepInv, CleanStep
<1>3. UpgInv /\ Clean => FirstTime
  <2> SUFFICES ASSUME UpgInv, Clean, FlagErased, faults = 0, step = Done
               PROVE  flash = image /\ ~again /\ (running = "app" \/ pc = "start")
    BY DEF FirstTime
  <2>1. Turns /\ Progress /\ ~again /\ image \in Images
    BY DEF Clean, UpgInv, UpgTypeOK
  <2>2. net = {} /\ pc \in {"ready", "start"} /\ Did = Done
    BY <2>1 DEF Turns, Did
  <2>3. flash = Filled(image, Done)
    BY <2>1, <2>2, Bounds DEF Progress, Done
  <2>4. Filled(image, Done) = image
    BY <2>1, FilledAll
  <2>5. QED
    BY <2>1, <2>2, <2>3, <2>4 DEF Progress
<1>4. QED
  BY <1>1, <1>2, <1>3, PTL DEF UpgSpec

----------------------------------------------------------------------------
(* A flag that stays.                                                      *)

(* A cleared flag is cleared until it is erased.                           *)
LEMMA ClearedStays ==
  ASSUME ~FlagErased, flag = NotSet, [UpgNext]_upgVars
  PROVE  flag' = NotSet
<1>1. ASSUME NEW value, ProgramFlag(value), value \in {NotSet, IsSet}
      PROVE  flag' = NotSet
  <2>1. NotSet # IsSet
    BY DEF NotSet, IsSet
  <2>2. QED
    BY <1>1, <2>1, Zenon DEF ProgramFlag
<1>2. CASE StartApp \/ \E r \in Requests : Leave(r)
  BY <1>1, <1>2 DEF StartApp, Leave
<1>3. CASE \/ EraseSector6 \/ EraseSector7 \/ Program \/ Reply \/ PowerFails \/ Send \/ TryAgain
           \/ StartAfresh \/ \E r \in Requests : Handle(r) \/ TakeAnswer(r)
           \/ \E p \in net : Lose(p)
  BY <1>3
  DEF EraseSector6, EraseSector7, Program, Reply, PowerFails, TornFlag, Send, TryAgain,
      StartAfresh, Handle, TakeAnswer, Lose, flashVars
<1>4. CASE UNCHANGED upgVars
  BY <1>4 DEF upgVars, flashVars
<1>5. QED
  BY <1>2, <1>3, <1>4 DEF UpgNext, Fn3

(* Where erasing the image does not erase APP_CONFIG_ADDRESS, the first    *)
(* request that reaches the application is the last thing it ever does:    *)
(* fn3 clears the flag, and no upgrade, however complete, can set it again. *)
THEOREM UpgNeverAgain ==
  ASSUME ~FlagErased PROVE UpgSpec => [](flag = NotSet => [](running = "bootloader"))
<1>1. UpgInv /\ flag = NotSet => running = "bootloader"
  BY DEF UpgInv, UpgTypeOK, FlagInv, NotSet, IsSet
<1>2. flag = NotSet /\ [UpgNext]_upgVars => (flag = NotSet)'
  BY ClearedStays
<1>3. QED
  BY <1>1, <1>2, UpgCorrect, PTL DEF UpgSpec
=============================================================================
