------------------------- MODULE MCFirmwareUpgrade -------------------------
(***************************************************************************)
(* FirmwareUpgrade with two chunks of two bits, in one sector each.        *)
(***************************************************************************)
EXTENDS FirmwareUpgrade

(* Two images of the same sum, which have no bit in common.                *)
TwoImages == {{<<1, 1>>, <<2, 2>>}, {<<1, 2>>, <<2, 1>>}}
=============================================================================
