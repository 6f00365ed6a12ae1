----------------------------- MODULE MCUsbhCore -----------------------------
(* The steps a device may refuse, for model checking the host.             *)
EXTENDS UsbhCore

(* Anything.                                                               *)
AnyRefusal == Reads \union Writes

(* Anything the code has an answer to: a refusal of SET_CONFIGURATION or   *)
(* SET_FEATURE is sent again for ever.                                     *)
HandledRefusal == AnyRefusal \ {"HOST_SET_CONFIGURATION", "HOST_SET_WAKEUP_FEATURE"}

=============================================================================
